---- MODULE Spec2Model ----
(***************************************************************************)
(* The sheet-backed data access layer of server.js: tab provisioning, the  *)
(* dealer / vehicle / lead record mappers, and the key-based upsert and    *)
(* append protocols, over a spreadsheet of tabs of text cells.             *)
(*                                                                         *)
(* sheet is the spreadsheet, now the clock, prev the spreadsheet before    *)
(* the last operation and last the record of that operation; inp is the   *)
(* argument a codec function is applied to, calls the upserts in flight.  *)
(*                                                                         *)
(* A tab is [rowCount, cells]; cells maps the numbers of the populated     *)
(* rows to the row's cells (a sequence of strings with no trailing empty   *)
(* cell).  A blank row is a row number outside DOMAIN cells.               *)
(***************************************************************************)
EXTENDS Integers, Sequences, FiniteSets, TLC

VARIABLES sheet, now, prev, last, inp, calls

vars == <<sheet, now, prev, last, inp, calls>>

(* ------------------------------ bounds -------------------------------- *)

\* Number of timestamped writes (nowIso() ticks) in a behaviour.
MaxClock == 2

(* ----------------------- program constants ---------------------------- *)

DEALER_LEADS_START_ROW == 2000
ADMIN_SHEET_TITLE == "ADMIN"
SETTINGS_SHEET_TITLE == "SETTINGS"
DealerMinFloor == 1200
DealerLeadBuffer == 300
DEALER_MIN_ROWS ==
  IF DealerMinFloor >= DEALER_LEADS_START_ROW + DealerLeadBuffer
  THEN DealerMinFloor ELSE DEALER_LEADS_START_ROW + DealerLeadBuffer
AdminMinRows == 200
SettingsMinRows == 50
\* gridProperties?.rowCount || 1000, and the grid a new tab is given
DefaultRows == 1000
AdminWidth == 9
DealerWidth == 12
SettingsWidth == 3

adminHeaders ==
  <<"dealerId", "name", "status", "passcodeHash", "passcode", "whatsapp",
    "logoUrl", "createdAt", "updatedAt">>
vehHeaders ==
  <<"vehicleId", "title", "make", "model", "year", "price", "status", "notes",
    "heroImage", "heroVideo", "imagesJson", "updatedAt">>
leadHeaders ==
  <<"createdAt", "leadId", "vehicleId", "type", "name", "phone", "email",
    "preferredDate", "preferredTime", "notes", "source", "status">>
settingsHeaders == <<"key", "value", "updatedAt">>

(* ----------------------------- helpers -------------------------------- *)

SetMax(S) == CHOOSE x \in S : \A y \in S : y <= x
SetMin(S) == CHOOSE x \in S : \A y \in S : x <= y

\* r[i] || "" (i is 1-based here)
Cell(r, i) == IF i <= Len(r) THEN r[i] ELSE ""

\* values.get drops the trailing empty cells of a row
RECURSIVE TrimRow(_)
TrimRow(r) ==
  IF r = <<>> THEN r
  ELSE IF r[Len(r)] = "" THEN TrimRow(SubSeq(r, 1, Len(r) - 1)) ELSE r

\* Array.prototype.join("|")
RECURSIVE Join(_)
Join(r) ==
  IF r = <<>> THEN ""
  ELSE IF Len(r) = 1 THEN r[1] ELSE r[1] \o "|" \o Join(Tail(r))

\* the array holding the values of f in the order of their indices
RECURSIVE Pack(_)
Pack(f) ==
  IF DOMAIN f = {} THEN <<>>
  ELSE <<f[SetMin(DOMAIN f)]>> \o Pack([i \in DOMAIN f \ {SetMin(DOMAIN f)} |-> f[i]])

\* nowIso(): the clock reading as text (later readings compare greater)
nowIso(t) == "T" \o ToString(t)

(* ------------------------- string functions --------------------------- *)

\* String.prototype.trim(), on the spellings the model uses
Trim(s) ==
  CASE s = " AB123 " -> "AB123"
    [] s = " storefrontLogoUrl " -> "storefrontLogoUrl"
    [] s = " https://cdn/2.jpg " -> "https://cdn/2.jpg"
    [] s = " " -> ""
    [] OTHER -> s

\* String.prototype.toUpperCase(), on the spellings the model uses
ToUpperCase(s) ==
  CASE s = "ab123" -> "AB123"
    [] s = "cd456" -> "CD456"
    [] s = "a1" -> "A1"
    [] OTHER -> s

\* String.prototype.toLowerCase(), on the status spellings the model uses
ToLowerCase(s) ==
  CASE s = "Active" -> "active"
    [] s = "PAUSED" -> "paused"
    [] s = "Published" -> "published"
    [] s = "AVAILABLE" -> "available"
    [] s = "In_Stock" -> "in_stock"
    [] s = "INSTOCK" -> "instock"
    [] s = "SOLD" -> "sold"
    [] OTHER -> s

normalizeDealerId(dealerId) == ToUpperCase(Trim(dealerId))

\* /^[A-Za-z]{2}\d{3}$/ on the trimmed id
TwoLettersThreeDigits == {"AB123", "ab123", "CD456", "cd456"}
\* a check that takes every id that is not blank
isValidDealerIdAnyText(dealerId) == Trim(dealerId) # ""

isValidDealerId(dealerId) == Trim(dealerId) \in TwoLettersThreeDigits

\* normalize, replace every run outside [\w\- ] by "_", keep 80 characters:
\* the ids of the model hold word characters only and are shorter
safeDealerTabName(dealerId) == Trim(normalizeDealerId(dealerId))

(* --------------------------- the store -------------------------------- *)

\* A call context: the spreadsheet and the store calls issued so far.
Ctx(s) == [s |-> s, reads |-> 0, structs |-> 0, writes |-> 0]

EmptyTab(n) == [rowCount |-> n, cells |-> <<>>]

\* spreadsheets.get: the titles and grid sizes (read from c.s by the caller)
getSpreadsheetMeta(c) == [c EXCEPT !.reads = @ + 1]

\* batchUpdate addSheet
addSheet(c, title) ==
  [c EXCEPT !.s = [t \in DOMAIN c.s \cup {title} |->
                     IF t = title THEN EmptyTab(DefaultRows) ELSE c.s[t]],
            !.structs = @ + 1]

\* batchUpdate updateSheetProperties gridProperties.rowCount: rows past the
\* new count are cut off
ensureRows(c, title, neededRowCount) ==
  LET tab == c.s[title]
      kept == {r \in DOMAIN tab.cells : r <= neededRowCount}
  IN [c EXCEPT !.s[title] = [rowCount |-> neededRowCount,
                             cells |-> [r \in kept |-> tab.cells[r]]],
               !.structs = @ + 1]

\* values.get of one row, columns 1..width: (values && values[0]) || []
RowAt(s, title, rowNum, width) ==
  LET cells == s[title].cells
  IN IF rowNum \in DOMAIN cells
     THEN TrimRow(SubSeq(cells[rowNum], 1,
                         IF Len(cells[rowNum]) < width THEN Len(cells[rowNum]) ELSE width))
     ELSE <<>>

\* values.get of the open range from row `from` down: the populated rows by
\* row number; row from+i is element i of the returned array, a blank row in
\* between an empty array
RowsFrom(s, title, from, width) ==
  LET cells == s[title].cells
  IN [r \in {q \in DOMAIN cells : q >= from} |-> RowAt(s, title, r, width)]

valuesGet(c) == [c EXCEPT !.reads = @ + 1]

\* values.update (RAW) of the cells of row rowNum from column col on
valuesUpdate(c, title, rowNum, col, values) ==
  LET tab == c.s[title]
      old == IF rowNum \in DOMAIN tab.cells THEN tab.cells[rowNum] ELSE <<>>
      hi == col + Len(values) - 1
      width == IF Len(old) > hi THEN Len(old) ELSE hi
      new == TrimRow([i \in 1..width |->
                        IF i >= col /\ i <= hi THEN values[i - col + 1] ELSE Cell(old, i)])
      dom == IF new = <<>> THEN DOMAIN tab.cells \ {rowNum}
             ELSE DOMAIN tab.cells \cup {rowNum}
  IN [c EXCEPT !.s[title].cells = [r \in dom |-> IF r = rowNum THEN new ELSE tab.cells[r]],
               !.writes = @ + 1]

\* The row values.append (INSERT_ROWS) writes for a range that starts at row
\* `from`: the row after the last populated row of the range, or the first
\* row of the range when it holds nothing.
appendTarget(s, title, from) ==
  LET pop == {r \in DOMAIN s[title].cells : r >= from}
  IN IF pop = {} THEN from ELSE SetMax(pop) + 1

\* values.append (RAW, INSERT_ROWS): one row is inserted for the new data
valuesAppend(c, title, from, values) ==
  LET tab == c.s[title]
      target == appendTarget(c.s, title, from)
      new == TrimRow(values)
      dom == IF new = <<>> THEN DOMAIN tab.cells ELSE DOMAIN tab.cells \cup {target}
  IN [c EXCEPT !.s[title] = [rowCount |-> tab.rowCount + 1,
                             cells |-> [r \in dom |-> IF r = target THEN new ELSE tab.cells[r]]],
               !.writes = @ + 1]

(* -------------------------- provisioning ------------------------------ *)

\* The element of a one-element set. Only({e(x) : x \in {v}}) is e with x
\* standing for the value of v, computed once: how the result of one store
\* call is handed to the next.
Only(S) == CHOOSE x \in S : TRUE

currentRows(tab) == IF tab.rowCount = 0 THEN DefaultRows ELSE tab.rowCount

\* ensureTab without the comparison with minRows
ensureTabAlwaysResize(c, title, minRows) ==
  Only({IF title \in DOMAIN meta.s
        THEN getSpreadsheetMeta(ensureRows(meta, title, minRows))
        ELSE Only({getSpreadsheetMeta(ensureRows(meta2, title, minRows))
                   : meta2 \in {getSpreadsheetMeta(addSheet(meta, title))}})
        : meta \in {getSpreadsheetMeta(c)}})

ensureTab(c, title, minRows) ==
  Only({IF title \in DOMAIN meta.s
        THEN IF currentRows(meta.s[title]) < minRows
             THEN getSpreadsheetMeta(ensureRows(meta, title, minRows))
             ELSE meta
        ELSE Only({IF currentRows(meta2.s[title]) < minRows
                   THEN getSpreadsheetMeta(ensureRows(meta2, title, minRows))
                   ELSE meta2
                   : meta2 \in {getSpreadsheetMeta(addSheet(meta, title))}})
        : meta \in {getSpreadsheetMeta(c)}})

\* the header check without the comparison
ensureHeaderRowAlwaysWrite(c, title, rowNum, headers) ==
  valuesUpdate(valuesGet(c), title, rowNum, 1, headers)

\* a header check that writes the headers one row further down
ensureHeaderRowBelow(c, title, rowNum, headers) ==
  IF Join(RowAt(c.s, title, rowNum, Len(headers))) # Join(headers)
  THEN valuesUpdate(valuesGet(c), title, rowNum + 1, 1, headers)
  ELSE valuesGet(c)

\* read the header range, rewrite it when the joined cells differ
ensureHeaderRow(c, title, rowNum, headers) ==
  IF Join(RowAt(c.s, title, rowNum, Len(headers))) # Join(headers)
  THEN valuesUpdate(valuesGet(c), title, rowNum, 1, headers)
  ELSE valuesGet(c)

ensureAdminSheet(c) ==
  Only({ensureHeaderRow(c1, ADMIN_SHEET_TITLE, 1, adminHeaders)
        : c1 \in {ensureTab(c, ADMIN_SHEET_TITLE, AdminMinRows)}})

\* ensureDealerTabLayout under the two constants of the configuration
ensureDealerTabLayoutWith(c, dealerId, leadRow, minRows) ==
  Only({Only({ensureHeaderRow(c2, safeDealerTabName(dealerId), leadRow, leadHeaders)
              : c2 \in {ensureHeaderRow(c1, safeDealerTabName(dealerId), 1, vehHeaders)}})
        : c1 \in {ensureTab(c, safeDealerTabName(dealerId), minRows)}})

\* with no environment variable set
ensureDealerTabLayout(c, dealerId) ==
  ensureDealerTabLayoutWith(c, dealerId, DEALER_LEADS_START_ROW, DEALER_MIN_ROWS)

ensureSettingsSheet(c) ==
  Only({ensureHeaderRow(c1, SETTINGS_SHEET_TITLE, 1, settingsHeaders)
        : c1 \in {ensureTab(c, SETTINGS_SHEET_TITLE, SettingsMinRows)}})

(* ------------------------- passcode hashing --------------------------- *)

\* crypto.pbkdf2Sync(passcode, salt, 120000, 32, "sha256").toString("hex"):
\* a digest determined by, and distinct for distinct, (passcode, salt)
pbkdf2(passcode, salt) == "kdf(" \o passcode \o "," \o salt \o ")"

\* crypto.randomBytes(16).toString("hex")
Salts == {"5a17"}
\* gen6(): a six-digit decimal string
Gen6 == {"111111", "222222"}
\* passcodes a caller may type
TypedPasscodes == {"777777"}
Passcodes == Gen6 \cup TypedPasscodes \cup {"000000"}

hashPasscodeUnsalted(passcode, salt) == salt \o "$$" \o pbkdf2(passcode, "")

hashPasscode(passcode, salt) == salt \o "$$" \o pbkdf2(passcode, salt)

\* The (salt, hash) pairs a stored string of the model can split into.
HashParts == {<<s, pbkdf2(p, s2)>> : s \in Salts, p \in Passcodes, s2 \in Salts \cup {""}}

\* v.split("$$") with two parts, else v.split("$") with its empty parts
\* dropped and at least two left, else v.split(":") with two parts; <<>> is
\* null
parseStoredHash(stored) ==
  LET two == {x \in HashParts : stored = x[1] \o "$$" \o x[2]}
      one == {x \in HashParts : stored = x[1] \o "$" \o x[2]}
      col == {x \in HashParts : stored = x[1] \o ":" \o x[2]}
      pick(S) == LET x == CHOOSE y \in S : TRUE IN <<[salt |-> x[1], hash |-> x[2]]>>
  IN IF two # {} THEN pick(two)
     ELSE IF one # {} THEN pick(one)
     ELSE IF col # {} THEN pick(col)
     ELSE <<>>

verifyPasscode(passcode, stored) ==
  LET parsed == parseStoredHash(stored)
  IN IF parsed = <<>> THEN FALSE
     ELSE pbkdf2(passcode, parsed[1].salt) = parsed[1].hash

\* String(s || "").replace(/\D+/g, ""), on the numbers the model uses
digitsOnly(s) ==
  CASE s = "+1 (876) 555-1234" -> "18765551234"
    [] OTHER -> s

(* ------------------------- dealers (admin tab) ------------------------ *)

\* one element of adminListDealers' rows.map
decodeDealer(r) ==
  LET hasPasscodeColumn == Len(r) >= AdminWidth
  IN [dealerId |-> Cell(r, 1),
      name |-> Cell(r, 2),
      status |-> ToLowerCase(IF Cell(r, 3) = "" THEN "active" ELSE Cell(r, 3)),
      passcodeHash |-> Cell(r, 4),
      passcode |-> IF hasPasscodeColumn THEN Cell(r, 5) ELSE "",
      whatsapp |-> IF hasPasscodeColumn THEN Cell(r, 6) ELSE Cell(r, 5),
      logoUrl |-> IF hasPasscodeColumn THEN Cell(r, 7) ELSE Cell(r, 6),
      createdAt |-> IF hasPasscodeColumn THEN Cell(r, 8) ELSE Cell(r, 7),
      updatedAt |-> IF hasPasscodeColumn THEN Cell(r, 9) ELSE Cell(r, 8)]

\* [c: the context after the calls, v: the array, by index from 0: one
\* element for every row read, a blank row in between included]
adminListDealers(c) ==
  Only({Only({[c |-> valuesGet(c1),
               v |-> [i \in 0..(SetMax(DOMAIN rows \cup {1}) - 2) |->
                        decodeDealer(IF i + 2 \in DOMAIN rows THEN rows[i + 2] ELSE <<>>)]]
              : rows \in {RowsFrom(c1.s, ADMIN_SHEET_TITLE, 2, AdminWidth)}})
        : c1 \in {ensureAdminSheet(c)}})

\* an index search that never finds the dealer
findDealerIndexNever(dealers, dealerId) == -1

\* dealers.findIndex((d) => d.dealerId === dealer.dealerId)
findDealerIndex(dealers, dealerId) ==
  LET hits == {i \in DOMAIN dealers : dealers[i].dealerId = dealerId}
  IN IF hits = {} THEN -1 ELSE SetMin(hits)

\* dealerRowValues stamping createdAt on every write
dealerRowValuesRestamped(dealer, t) ==
  <<dealer.dealerId,
    dealer.name,
    IF dealer.status = "" THEN "active" ELSE dealer.status,
    dealer.passcodeHash,
    dealer.passcode,
    dealer.whatsapp,
    dealer.logoUrl,
    nowIso(t),
    IF dealer.updatedAt = "" THEN nowIso(t) ELSE dealer.updatedAt>>

dealerRowValues(dealer, t) ==
  <<dealer.dealerId,
    dealer.name,
    IF dealer.status = "" THEN "active" ELSE dealer.status,
    dealer.passcodeHash,
    dealer.passcode,
    dealer.whatsapp,
    dealer.logoUrl,
    IF dealer.createdAt = "" THEN nowIso(t) ELSE dealer.createdAt,
    IF dealer.updatedAt = "" THEN nowIso(t) ELSE dealer.updatedAt>>

\* the write of adminUpsertDealer: append when the scan found nothing,
\* update of row idx + 2 otherwise
dealerWrite(c, idx, rowValues) ==
  IF idx = -1
  THEN valuesAppend(c, ADMIN_SHEET_TITLE, 1, rowValues)
  ELSE valuesUpdate(c, ADMIN_SHEET_TITLE, idx + 2, 1, rowValues)

\* [c, idx: the index found (-1: appended), rowNum: the row written]
adminUpsertDealer(c, dealer, t) ==
  Only({Only({Only({
    [c |-> dealerWrite(l.c, idx, dealerRowValues(dealer, t)),
     idx |-> idx,
     rowNum |-> IF idx = -1 THEN appendTarget(l.c.s, ADMIN_SHEET_TITLE, 1) ELSE idx + 2]
    : idx \in {findDealerIndex(l.v, dealer.dealerId)}})
    : l \in {adminListDealers(c1)}})
    : c1 \in {ensureAdminSheet(c)}})

\* [c, v: <<>> (null) or <<the first dealer whose normalized id matches>>]
adminGetDealer(c, dealerId) ==
  Only({LET hits == {i \in DOMAIN l.v :
                       normalizeDealerId(l.v[i].dealerId) = normalizeDealerId(dealerId)}
        IN [c |-> l.c, v |-> IF hits = {} THEN <<>> ELSE <<l.v[SetMin(hits)]>>]
        : l \in {adminListDealers(c)}})

(* ---------------------- vehicles (dealer tab) ------------------------- *)

\* numbers the model writes into cells; Number(text) of any other text is
\* NaN
Numbers == {0, 2020, 15000, 500, 1000, 3000}
NaN == -1
Number(text) ==
  IF \E n \in Numbers : ToString(n) = text
  THEN CHOOSE n \in Numbers : ToString(n) = text
  ELSE NaN

\* The layout constants as the process computes them at start from its
\* environment; a variable that is unset or empty is "".
leadsStartRow(env) ==
  IF env.DEALER_LEADS_START_ROW # "" THEN Number(env.DEALER_LEADS_START_ROW)
  ELSE DEALER_LEADS_START_ROW

dealerMinRows(env) ==
  IF env.DEALER_MIN_ROWS # "" THEN Number(env.DEALER_MIN_ROWS)
  ELSE IF DealerMinFloor >= leadsStartRow(env) + DealerLeadBuffer
       THEN DealerMinFloor ELSE leadsStartRow(env) + DealerLeadBuffer

\* /^https?:\/\//i on the urls the model uses
HttpUrls == {"https://cdn/1.jpg", "https://cdn/2.jpg"}
isHttpUrl(u) == u \in HttpUrls

\* JSON.stringify of an array of strings
RECURSIVE jsonItems(_)
jsonItems(xs) ==
  IF xs = <<>> THEN ""
  ELSE IF Len(xs) = 1 THEN "\"" \o xs[1] \o "\""
  ELSE "\"" \o xs[1] \o "\"," \o jsonItems(Tail(xs))
jsonStringify(xs) == "[" \o jsonItems(xs) \o "]"

ImageLists ==
  {<<>>} \cup {<<u>> : u \in HttpUrls} \cup {<<u, v>> : u \in HttpUrls, v \in HttpUrls}

\* JSON.parse(v || "[]"), [] unless the text is an array
safeParseJsonArray(v) ==
  LET text == IF v = "" THEN "[]" ELSE v
  IN IF \E xs \in ImageLists : jsonStringify(xs) = text
     THEN CHOOSE xs \in ImageLists : jsonStringify(xs) = text
     ELSE <<>>

\* a decoder that reads every row in the current twelve-column layout
decodeVehicleCurrentLayout(r, dealerId) ==
  [vehicleId |-> Cell(r, 1),
   title |-> Cell(r, 2),
   make |-> Cell(r, 3),
   model |-> Cell(r, 4),
   year |-> IF Cell(r, 5) # "" THEN <<Number(Cell(r, 5))>> ELSE <<>>,
   price |-> IF Cell(r, 6) # "" THEN Number(Cell(r, 6)) ELSE 0,
   status |-> Cell(r, 7),
   notes |-> Cell(r, 8),
   heroImage |-> Cell(r, 9),
   heroVideo |-> Cell(r, 10),
   images |-> safeParseJsonArray(Cell(r, 11)),
   updatedAt |-> Cell(r, 12),
   dealerId |-> dealerId]

\* a year is <<>> (null) or <<n>>
decodeVehicle(r, dealerId) ==
  LET wide == Len(r) >= DealerWidth
  IN [vehicleId |-> Cell(r, 1),
      title |-> Cell(r, 2),
      make |-> Cell(r, 3),
      model |-> Cell(r, 4),
      year |-> IF Cell(r, 5) # "" THEN <<Number(Cell(r, 5))>> ELSE <<>>,
      price |-> IF Cell(r, 6) # "" THEN Number(Cell(r, 6)) ELSE 0,
      status |-> Cell(r, 7),
      notes |-> Cell(r, 8),
      heroImage |-> Cell(r, 9),
      heroVideo |-> IF wide THEN Cell(r, 10) ELSE "",
      images |-> safeParseJsonArray(IF wide THEN Cell(r, 11) ELSE Cell(r, 10)),
      updatedAt |-> IF wide THEN Cell(r, 12) ELSE Cell(r, 11),
      dealerId |-> dealerId]

\* [c, v: the array of vehicles, in the order of the rows read from A2:L]
dealerListVehicles(c, dealerId) ==
  LET normalized == normalizeDealerId(dealerId)
      tab == safeDealerTabName(normalized)
  IN Only({Only({
       [c |-> valuesGet(c1),
        v |-> Pack([q \in {q \in DOMAIN rows : Trim(Cell(rows[q], 1)) # ""}
                      |-> decodeVehicle(rows[q], dealerId)])]
       : rows \in {RowsFrom(c1.s, tab, 2, DealerWidth)}})
       : c1 \in {ensureDealerTabLayout(c, normalized)}})

vehicleRowValues(vehicle, updatedAt) ==
  <<vehicle.vehicleId,
    vehicle.title,
    vehicle.make,
    vehicle.model,
    IF vehicle.year # <<>> /\ vehicle.year[1] # 0 THEN ToString(vehicle.year[1]) ELSE "",
    IF vehicle.price # 0 THEN ToString(vehicle.price) ELSE "",
    IF vehicle.status = "" THEN "available" ELSE vehicle.status,
    vehicle.notes,
    vehicle.heroImage,
    vehicle.heroVideo,
    jsonStringify(vehicle.images),
    updatedAt>>

\* the scan for (rows[i][0] || "").trim() === vehicleId: i + 2, or -1. The
\* id the handler passes is never empty, so no blank row matches.
findVehicleRowNever(rows, vehicleId) == -1

findVehicleRow(rows, vehicleId) ==
  LET hits == {r - 2 : r \in {q \in DOMAIN rows : Trim(Cell(rows[q], 1)) = vehicleId}}
  IN IF hits = {} THEN -1 ELSE SetMin(hits) + 2

\* a write to the first vehicle row in place of the append
vehicleAppendSecondRow(c, tab, values) == valuesUpdate(c, tab, 2, 1, values)

\* values.append on <tab>!A:L
vehicleAppend(c, tab, values) == valuesAppend(c, tab, 1, values)

\* a write that scans the tab again and updates the row the key has by now
vehicleWriteConditional(c, tab, foundRowNum, rowValues) ==
  IF findVehicleRow(RowsFrom(c.s, tab, 2, DealerWidth), rowValues[1]) = -1
  THEN vehicleAppend(c, tab, rowValues)
  ELSE valuesUpdate(c, tab, findVehicleRow(RowsFrom(c.s, tab, 2, DealerWidth), rowValues[1]),
                    1, rowValues)

\* the write of dealerUpsertVehicle: append when the scan found nothing,
\* update of the row found otherwise
vehicleWrite(c, tab, foundRowNum, rowValues) ==
  IF foundRowNum = -1
  THEN vehicleAppend(c, tab, rowValues)
  ELSE valuesUpdate(c, tab, foundRowNum, 1, rowValues)

\* [c, foundRowNum, rowNum: the row written]
dealerUpsertVehicle(c, dealerId, vehicle, t) ==
  LET normalized == normalizeDealerId(dealerId)
      tab == safeDealerTabName(normalized)
      rowValues == vehicleRowValues(vehicle, nowIso(t))
  IN Only({Only({Only({
       [c |-> vehicleWrite(c2, tab, foundRowNum, rowValues),
        foundRowNum |-> foundRowNum,
        rowNum |-> IF foundRowNum = -1 THEN appendTarget(c2.s, tab, 1) ELSE foundRowNum]
       : foundRowNum \in {findVehicleRow(RowsFrom(c2.s, tab, 2, DealerWidth),
                                         vehicle.vehicleId)}})
       : c2 \in {valuesGet(c1)}})
       : c1 \in {ensureDealerTabLayout(c, normalized)}})

(* ------------------------ leads (dealer tab) -------------------------- *)

decodeLead(r, normalized, rowNum) ==
  [createdAt |-> Cell(r, 1),
   leadId |-> Cell(r, 2),
   vehicleId |-> Cell(r, 3),
   type |-> Cell(r, 4),
   name |-> Cell(r, 5),
   phone |-> Cell(r, 6),
   email |-> Cell(r, 7),
   preferredDate |-> Cell(r, 8),
   preferredTime |-> Cell(r, 9),
   notes |-> Cell(r, 10),
   source |-> Cell(r, 11),
   status |-> IF Cell(r, 12) = "" THEN "new" ELSE Cell(r, 12),
   dealerId |-> normalized,
   rowNum |-> rowNum]

\* dealerListLeads numbering the rows it keeps, not the rows it read
dealerListLeadsPacked(c, dealerId) ==
  LET normalized == normalizeDealerId(dealerId)
      tab == safeDealerTabName(normalized)
      start == DEALER_LEADS_START_ROW + 1
  IN Only({Only({
       [c |-> valuesGet(c1),
        v |-> [idx \in {Cardinality({q \in DOMAIN rows : q < r}) : r \in DOMAIN rows} |->
                 LET r == CHOOSE q \in DOMAIN rows :
                            Cardinality({p \in DOMAIN rows : p < q}) = idx
                 IN decodeLead(rows[r], normalized, start + idx)]]
       : rows \in {RowsFrom(c1.s, tab, start, DealerWidth)}})
       : c1 \in {ensureDealerTabLayout(c, normalized)}})

\* [c, v: the leads by the index idx of their row in the array read from
\* A<start>:L; rowNum is start + idx, and a row with no leadId is dropped]
dealerListLeads(c, dealerId) ==
  LET normalized == normalizeDealerId(dealerId)
      tab == safeDealerTabName(normalized)
      start == DEALER_LEADS_START_ROW + 1
  IN Only({Only({
       [c |-> valuesGet(c1),
        v |-> [idx \in {r - start : r \in {q \in DOMAIN rows : Trim(Cell(rows[q], 2)) # ""}}
                 |-> decodeLead(rows[start + idx], normalized, start + idx)]]
       : rows \in {RowsFrom(c1.s, tab, start, DealerWidth)}})
       : c1 \in {ensureDealerTabLayout(c, normalized)}})

\* [c, v: <<>> (null) or <<the lead, with the new status>>]
\* dealerUpdateLeadStatus taking the first lead of the section whatever its id
dealerUpdateLeadStatusAnyLead(c, dealerId, leadId, status) ==
  LET normalized == normalizeDealerId(dealerId)
  IN Only({
       LET hits == DOMAIN l.v
       IN IF hits = {} THEN [c |-> l.c, v |-> <<>>]
          ELSE [c |-> valuesUpdate(l.c, safeDealerTabName(normalized),
                                   l.v[SetMin(hits)].rowNum, DealerWidth, <<status>>),
                v |-> <<[l.v[SetMin(hits)] EXCEPT !.status = status]>>]
       : l \in {dealerListLeads(c, normalized)}})

dealerUpdateLeadStatus(c, dealerId, leadId, status) ==
  LET normalized == normalizeDealerId(dealerId)
  IN Only({
       LET hits == {i \in DOMAIN l.v : l.v[i].leadId = leadId}
       IN IF hits = {} THEN [c |-> l.c, v |-> <<>>]
          ELSE [c |-> valuesUpdate(l.c, safeDealerTabName(normalized),
                                   l.v[SetMin(hits)].rowNum, DealerWidth, <<status>>),
                v |-> <<[l.v[SetMin(hits)] EXCEPT !.status = status]>>]
       : l \in {dealerListLeads(c, normalized)}})

leadRowValues(lead, leadId, createdAt) ==
  <<createdAt,
    leadId,
    lead.vehicleId,
    IF lead.type = "" THEN "video" ELSE lead.type,
    lead.name,
    lead.phone,
    lead.email,
    lead.preferredDate,
    lead.preferredTime,
    lead.notes,
    IF lead.source = "" THEN "storefront" ELSE lead.source,
    IF lead.status = "" THEN "new" ELSE lead.status>>

\* the row the lead goes to: values.append on A<start row + 1>:L
leadAppendFixedRow(c, tab, values) ==
  valuesUpdate(c, tab, DEALER_LEADS_START_ROW + 1, 1, values)

leadAppend(c, tab, values) ==
  valuesAppend(c, tab, DEALER_LEADS_START_ROW + 1, values)

\* [c, leadId, rowNum: the row written]; gen is "lead_" and 12 random hex
\* digits, used when the record carries no leadId
dealerAppendLead(c, dealerId, lead, gen, t) ==
  LET normalized == normalizeDealerId(dealerId)
      tab == safeDealerTabName(normalized)
      leadId == IF lead.leadId = "" THEN gen ELSE lead.leadId
  IN Only({[c |-> leadAppend(c1, tab, leadRowValues(lead, leadId, nowIso(t))),
            leadId |-> leadId,
            rowNum |-> appendTarget(c1.s, tab, DEALER_LEADS_START_ROW + 1)]
           : c1 \in {ensureDealerTabLayout(c, normalized)}})

(* ----------------------------- settings ------------------------------- *)

SETTINGS_KEYS == <<"storefrontLogoUrl", "storefrontHeroVideoUrl">>

\* SETTINGS_KEYS.includes(k)
isSettingsKey(k) == \E i \in DOMAIN SETTINGS_KEYS : SETTINGS_KEYS[i] = k

\* settings[key] = value, on an object held as a function from its keys
Put(settings, key, value) ==
  [k \in DOMAIN settings \cup {key} |-> IF k = key THEN value ELSE settings[k]]

\* a forEach callback that takes every row with a key
settingsRowAnyKey(settings, r) ==
  IF Trim(Cell(r, 1)) # ""
  THEN Put(settings, Trim(Cell(r, 1)), Trim(Cell(r, 2)))
  ELSE settings

\* the rows.forEach callback of getSettings
settingsRow(settings, r) ==
  IF Trim(Cell(r, 1)) # "" /\ isSettingsKey(Trim(Cell(r, 1)))
  THEN Put(settings, Trim(Cell(r, 1)), Trim(Cell(r, 2)))
  ELSE settings

\* rows.forEach, over the rows in their order
RECURSIVE settingsRows(_, _)
settingsRows(settings, rows) ==
  IF rows = <<>> THEN settings
  ELSE settingsRows(settingsRow(settings, Head(rows)), Tail(rows))

\* SETTINGS_KEYS.forEach: a key that has no entry yet gets ""
settingsDefaults(settings) ==
  [k \in DOMAIN settings \cup {SETTINGS_KEYS[i] : i \in DOMAIN SETTINGS_KEYS} |->
     IF k \in DOMAIN settings THEN settings[k] ELSE ""]

\* [c, v: the settings object]
getSettings(c) ==
  Only({Only({
    [c |-> valuesGet(c1), v |-> settingsDefaults(settingsRows(<<>>, Pack(rows)))]
    : rows \in {RowsFrom(c1.s, SETTINGS_SHEET_TITLE, 2, SettingsWidth)}})
    : c1 \in {ensureSettingsSheet(c)}})

\* rowMap.get(key): the last row read whose trimmed key is key, 0 for none
rowMapGet(rows, key) ==
  IF \E r \in DOMAIN rows : Trim(Cell(rows[r], 1)) = key
  THEN SetMax({r \in DOMAIN rows : Trim(Cell(rows[r], 1)) = key})
  ELSE 0

\* updates taken whatever their key
updatesArrAnyKey(updates) == updates

\* Object.entries(updates).filter(([k]) => SETTINGS_KEYS.includes(k)); an
\* entry is <<key, value>>
updatesArr(updates) == SelectSeq(updates, LAMBDA e : isSettingsKey(e[1]))

\* one pass of the for loop: update the key's row or append a row
settingsWrite(c, rows, e, t) ==
  IF rowMapGet(rows, e[1]) # 0
  THEN valuesUpdate(c, SETTINGS_SHEET_TITLE, rowMapGet(rows, e[1]), 1,
                    <<e[1], Trim(e[2]), nowIso(t)>>)
  ELSE valuesAppend(c, SETTINGS_SHEET_TITLE, 1, <<e[1], Trim(e[2]), nowIso(t)>>)

RECURSIVE settingsWrites(_, _, _, _)
settingsWrites(c, rows, arr, t) ==
  IF arr = <<>> THEN c
  ELSE Only({settingsWrites(c1, rows, Tail(arr), t)
             : c1 \in {settingsWrite(c, rows, Head(arr), t)}})

\* [c, v: the settings object read back after the writes]
updateSettings(c, updates, t) ==
  Only({Only({Only({Only({
    getSettings(c3)
    : c3 \in {settingsWrites(c2, rows, updatesArr(updates), t)}})
    : rows \in {RowsFrom(c1.s, SETTINGS_SHEET_TITLE, 2, SettingsWidth)}})
    : c2 \in {valuesGet(c1)}})
    : c1 \in {ensureSettingsSheet(c)}})

(* ------------------------------ handlers ------------------------------ *)

\* What a handler did: the context after its store calls, the HTTP status,
\* and what it found and wrote.
Resp(c, code, key, found, rowNum, passcode) ==
  [c |-> c, code |-> code, key |-> key, found |-> found, rowNum |-> rowNum,
   passcode |-> passcode]

\* POST /api/admin/dealers; body: [dealerId, name, status, whatsapp, logoUrl,
\* passcode], a field left out of the request being ""; gen, salt: what
\* gen6() and randomBytes return; t: the clock
postAdminDealers(s, body, gen, salt, t) ==
  IF body.dealerId = "" \/ body.name = "" THEN Resp(Ctx(s), 400, "", FALSE, 0, "")
  ELSE IF ~isValidDealerId(body.dealerId) THEN Resp(Ctx(s), 400, "", FALSE, 0, "")
  ELSE
    Only({
      LET normalizedDealerId == normalizeDealerId(body.dealerId)
          isNew == g.v = <<>>
          ex(f) == IF isNew THEN "" ELSE g.v[1][f]
          typed == Trim(body.passcode)
          passcode == IF typed = "" /\ isNew THEN gen ELSE typed
          record ==
            [dealerId |-> normalizedDealerId,
             name |-> body.name,
             status |-> ToLowerCase(IF body.status # "" THEN body.status
                                    ELSE IF ex("status") # "" THEN ex("status")
                                    ELSE "active"),
             passcodeHash |-> IF passcode # "" THEN hashPasscode(passcode, salt)
                              ELSE ex("passcodeHash"),
             passcode |-> IF passcode # "" THEN passcode ELSE ex("passcode"),
             whatsapp |-> digitsOnly(IF body.whatsapp # "" THEN body.whatsapp
                                     ELSE ex("whatsapp")),
             logoUrl |-> IF body.logoUrl # "" THEN body.logoUrl ELSE ex("logoUrl"),
             createdAt |-> IF ex("createdAt") # "" THEN ex("createdAt") ELSE nowIso(t),
             updatedAt |-> nowIso(t)]
      IN Only({Only({Resp(c3, 200, normalizedDealerId, ~isNew, u.rowNum, passcode)
                     : c3 \in {ensureDealerTabLayout(u.c, normalizedDealerId)}})
               : u \in {adminUpsertDealer(g.c, record, t)}})
      : g \in {adminGetDealer(Ctx(s), normalizeDealerId(body.dealerId))}})

\* POST /api/admin/reset-passcode
postAdminResetPasscode(s, body, gen, salt, t) ==
  IF body.dealerId = "" THEN Resp(Ctx(s), 400, "", FALSE, 0, "")
  ELSE IF ~isValidDealerId(body.dealerId) THEN Resp(Ctx(s), 400, "", FALSE, 0, "")
  ELSE
    Only({
      IF g.v = <<>> THEN Resp(g.c, 404, normalizeDealerId(body.dealerId), FALSE, 0, "")
      ELSE Only({Resp(u.c, 200, normalizeDealerId(body.dealerId), TRUE, u.rowNum, gen)
                 : u \in {adminUpsertDealer(
                            g.c,
                            [g.v[1] EXCEPT !.passcodeHash = hashPasscode(gen, salt),
                                           !.passcode = gen,
                                           !.updatedAt = nowIso(t)],
                            t)}})
      : g \in {adminGetDealer(Ctx(s), normalizeDealerId(body.dealerId))}})

\* POST /api/dealer/login: the token is issued with code 200
postDealerLogin(s, body) ==
  IF body.dealerId = "" \/ body.passcode = "" THEN Resp(Ctx(s), 400, "", FALSE, 0, "")
  ELSE IF ~isValidDealerId(body.dealerId) THEN Resp(Ctx(s), 400, "", FALSE, 0, "")
  ELSE
    Only({
      IF g.v = <<>> THEN Resp(g.c, 401, normalizeDealerId(body.dealerId), FALSE, 0, "")
      ELSE IF ~verifyPasscode(body.passcode, g.v[1].passcodeHash)
      THEN Resp(g.c, 401, normalizeDealerId(body.dealerId), TRUE, 0, "")
      ELSE Only({Resp(c1, 200, normalizeDealerId(body.dealerId), TRUE, 0, "")
                 : c1 \in {ensureDealerTabLayout(g.c, normalizeDealerId(body.dealerId))}})
      : g \in {adminGetDealer(Ctx(s), normalizeDealerId(body.dealerId))}})

\* makeVehicleId(): "VEH-" and six random hex digits
VehicleIds == {"VEH-0A1B2C", "VEH-D4E5F6"}

\* POST /api/dealer/vehicles; dealerId: that of the dealer's token; gen:
\* what makeVehicleId() returns
postDealerVehicles(s, dealerId, body, gen, t) ==
  LET vehicleId == IF Trim(body.vehicleId) # "" THEN Trim(body.vehicleId) ELSE gen
      heroImage0 == IF isHttpUrl(Trim(body.heroImage)) THEN Trim(body.heroImage) ELSE ""
      kept == SelectSeq(body.images, isHttpUrl)
      images == SubSeq(kept, 1, IF Len(kept) < 7 THEN Len(kept) ELSE 7)
      vehicle ==
        [vehicleId |-> vehicleId,
         title |-> Trim(body.title),
         make |-> Trim(body.make),
         model |-> Trim(body.model),
         year |-> body.year,
         price |-> body.price,
         status |-> Trim(IF body.status = "" THEN "available" ELSE body.status),
         notes |-> Trim(body.notes),
         heroImage |-> IF heroImage0 = "" /\ images # <<>> THEN images[1] ELSE heroImage0,
         heroVideo |-> IF isHttpUrl(Trim(body.heroVideo)) THEN Trim(body.heroVideo) ELSE "",
         images |-> images]
  IN IF vehicle.make = "" \/ vehicle.model = ""
     THEN Resp(Ctx(s), 400, vehicleId, FALSE, 0, "")
     ELSE Only({Resp(u.c, 200, vehicleId, u.foundRowNum # -1, u.rowNum, "")
                : u \in {dealerUpsertVehicle(Ctx(s), dealerId, vehicle, t)}})

\* a filter comparing the status as stored
filterPublicVehiclesExact(list) ==
  SelectSeq(list, LAMBDA v : v.status \in {"published", "available", "in_stock", "instock"})

\* the statuses the storefront shows
filterPublicVehicles(list) ==
  SelectSeq(list, LAMBDA v :
    ToLowerCase(v.status) \in {"published", "available", "in_stock", "instock"})

\* GET /api/public/vehicles
getPublicVehicles(s, dealerId) ==
  IF dealerId = "" THEN Resp(Ctx(s), 400, "", FALSE, 0, "")
  ELSE IF ~isValidDealerId(dealerId) THEN Resp(Ctx(s), 400, "", FALSE, 0, "")
  ELSE Only({Resp(l.c, 200, normalizeDealerId(dealerId),
                  filterPublicVehicles(l.v) # <<>>, 0, "")
             : l \in {dealerListVehicles(Ctx(s), normalizeDealerId(dealerId))}})

\* "lead_" and twelve random hex digits
LeadIds == {"lead_0123456789ab", "lead_cdef01234567"}

\* POST /api/public/leads
postPublicLeads(s, body, gen, t) ==
  LET dealerId == Trim(body.dealerId)
      lead ==
        [leadId |-> "",
         dealerId |-> normalizeDealerId(dealerId),
         vehicleId |-> Trim(body.vehicleId),
         type |-> IF Trim(body.type) = "" THEN "video" ELSE Trim(body.type),
         name |-> Trim(body.name),
         phone |-> Trim(body.phone),
         email |-> Trim(body.email),
         preferredDate |-> Trim(body.preferredDate),
         preferredTime |-> Trim(body.preferredTime),
         notes |-> Trim(body.notes),
         source |-> IF Trim(body.source) = "" THEN "storefront" ELSE Trim(body.source),
         status |-> "new"]
  IN IF dealerId = "" THEN Resp(Ctx(s), 400, "", FALSE, 0, "")
     ELSE IF ~isValidDealerId(dealerId) THEN Resp(Ctx(s), 400, "", FALSE, 0, "")
     ELSE IF lead.name = "" \/ lead.phone = "" THEN Resp(Ctx(s), 400, "", FALSE, 0, "")
     ELSE Only({Only({Resp(a.c, 200, a.leadId, FALSE, a.rowNum, "")
                      : a \in {dealerAppendLead(c1, lead.dealerId, lead, gen, t)}})
                : c1 \in {ensureDealerTabLayout(Ctx(s), lead.dealerId)}})

\* POST /api/admin/dealer/:dealerId/leads/status, and POST
\* /api/dealer/leads/status with the dealerId of the token
postLeadsStatus(s, dealerId, body) ==
  IF Trim(dealerId) = "" \/ body.leadId = "" \/ body.status = ""
  THEN Resp(Ctx(s), 400, "", FALSE, 0, "")
  ELSE IF ~isValidDealerId(Trim(dealerId)) THEN Resp(Ctx(s), 400, "", FALSE, 0, "")
  ELSE Only({IF u.v = <<>> THEN Resp(u.c, 404, body.leadId, FALSE, 0, "")
             ELSE Resp(u.c, 200, body.leadId, TRUE, u.v[1].rowNum, "")
             : u \in {dealerUpdateLeadStatus(Ctx(s), normalizeDealerId(Trim(dealerId)),
                                             body.leadId, body.status)}})

\* GET /api/public/config
getPublicConfig(s) ==
  Only({Resp(g.c, 200, "", FALSE, 0, "") : g \in {getSettings(Ctx(s))}})

\* GET /api/admin/settings: [c, v]
getAdminSettings(s) == getSettings(Ctx(s))

\* POST /api/admin/settings: [c, v]
postAdminSettings(s, body, t) == updateSettings(Ctx(s), body.settings, t)

(* ------------------------------ inputs -------------------------------- *)

DealerIdInputs == {"AB123", "ab123", "CD456"}
TokenDealerIds == {"AB123", "CD456"}
Names == {"Ace Motors", "Best Cars"}
Titles == {"Sedan", "Coupe"}
LeadStatuses == {"booked"}
LoginPasscodes == {"111111", "000000"}
\* the optional fields of a create-dealer request: left out, or given
DealerContacts ==
  {[status |-> "", whatsapp |-> ""], [status |-> "PAUSED", whatsapp |-> "+1 (876) 555-1234"]}

VehicleBodies ==
  [vehicleId : {""} \cup VehicleIds, title : Titles, make : {"Kia"}, model : {"Rio"},
   year : {<<2020>>}, price : {15000}, status : {""}, notes : {""},
   heroImage : {""}, heroVideo : {""}, images : {<<>>}]

\* vehicle bodies whose vehicleId the client chose: any text is taken
ChosenVehicleIds == {"VEH-0A1B2C", "createdAt", "T0"}
ChosenIdBodies ==
  [vehicleId : ChosenVehicleIds, title : {"Sedan"}, make : {"Kia"}, model : {"Rio"},
   year : {<<2020>>}, price : {15000}, status : {"", " "}, notes : {""},
   heroImage : {""}, heroVideo : {""}, images : {<<>>}]

\* environments: each of the two variables unset or a number
Environments ==
  [kind : {"env"}, DEALER_LEADS_START_ROW : {"", "500", "3000"},
   DEALER_MIN_ROWS : {"", "1000", "3000"}]

\* Two upserts in flight. A call is [kind, key, pc, found]: an
\* adminUpsertDealer of dealer `key` or a dealerUpsertVehicle of vehicle
\* `key` for dealer AB123; pc is the await it stands at and found what its
\* scan returned (-1: no match).
CallIds == {1, 2}
UpsertCalls ==
  [kind : {"vehicle"}, key : VehicleIds, pc : {"start"}, found : {-1}]
    \cup [kind : {"dealer"}, key : {"AB123", "CD456"}, pc : {"start"}, found : {-1}]

\* the records the calls carry
vehicleOfCall(k) ==
  [vehicleId |-> k.key, title |-> "Sedan", make |-> "Kia", model |-> "Rio",
   year |-> <<2020>>, price |-> 15000, status |-> "available", notes |-> "",
   heroImage |-> "", heroVideo |-> "", images |-> <<>>]

dealerOfCall(k) ==
  [dealerId |-> k.key, name |-> "Best Cars", status |-> "active", passcodeHash |-> "",
   passcode |-> "", whatsapp |-> "", logoUrl |-> "", createdAt |-> "", updatedAt |-> ""]

\* dealer records a caller of adminUpsertDealer may pass: createdAt and
\* updatedAt left out or given
UpsertDealerRecords ==
  [dealerId : {"AB123", "CD456"}, name : Names, status : {"", "paused"},
   passcodeHash : {""}, passcode : {""}, whatsapp : {""}, logoUrl : {""},
   createdAt : {"", "T9"}, updatedAt : {"", "T9"}]

LeadBodies ==
  [dealerId : DealerIdInputs, vehicleId : {"VEH-0A1B2C"}, type : {""}, name : {"Jane"},
   phone : {"8765551234"}, email : {""}, preferredDate : {""}, preferredTime : {""},
   notes : {""}, source : {""}]

\* records of the data model, as the encoders receive them: status empty
\* or given, year null, 0 or given, price 0 or given, up to two images
CodecVehicles ==
  [vehicleId : {"VEH-0A1B2C"}, title : {"Sedan"}, make : {"Kia"}, model : {"Rio"},
   year : {<<>>, <<0>>, <<2020>>}, price : {0, 15000}, status : {"", "available", "sold"},
   notes : {""}, heroImage : {"", "https://cdn/1.jpg"}, heroVideo : {"", "https://cdn/2.jpg"},
   images : {<<>>, <<"https://cdn/1.jpg">>, <<"https://cdn/1.jpg", "https://cdn/2.jpg">>}]

CodecDealers ==
  [dealerId : {"AB123"}, name : {"Ace Motors"}, status : {"", "active", "paused"},
   passcodeHash : {"", "s1:111111"}, passcode : {"", "111111"},
   whatsapp : {"", "8765551234"}, logoUrl : {""}, createdAt : {"", "T0"},
   updatedAt : {"", "T0"}]

\* rows as values.get returns them: vehicle rows written before the
\* heroVideo column existed (11 cells) and after (12 cells), dealer rows
\* written before the passcode column existed (8 cells) and after (9 cells)
LegacyVehicleRows ==
  {<<"VEH-0A1B2C", "Sedan", "Kia", "Rio", y, p, "available", "", h, j, "T0">> :
     y \in {"", "2020"}, p \in {"", "15000"}, h \in {"", "https://cdn/1.jpg"},
     j \in {"[]", "[\"https://cdn/2.jpg\"]", "https://cdn/2.jpg"}}

CurrentVehicleRows ==
  {SubSeq(r, 1, 9) \o <<v>> \o SubSeq(r, 10, 11) :
     r \in LegacyVehicleRows, v \in {"", "https://cdn/2.jpg"}}

LegacyDealerRows ==
  {<<"AB123", "Ace Motors", s, "s1$$k", w, l, "T0", "T1">> :
     s \in {"active", "PAUSED"}, w \in {"", "8765551234"}, l \in {"", "https://cdn/1.jpg"}}

CurrentDealerRows ==
  {SubSeq(r, 1, 4) \o <<pc>> \o SubSeq(r, 5, 8) : r \in LegacyDealerRows, pc \in {"", "111111"}}

RowInputs ==
  {[kind |-> "vehicleRow", row |-> r] : r \in LegacyVehicleRows \cup CurrentVehicleRows}
    \cup {[kind |-> "dealerRow", row |-> r] : r \in LegacyDealerRows \cup CurrentDealerRows}

\* status spellings: the four public ones in mixed case, and others
StatusInputs ==
  {"published", "Published", "AVAILABLE", "In_Stock", "INSTOCK", "instock", "sold", "SOLD",
   "draft", ""}

\* lists of up to MaxListLen vehicles, told apart by their ids
MaxListLen == 3
ListId(i) == "VEH-" \o ToString(i)
VehicleLists ==
  UNION {{[i \in 1..n |-> [vehicleId |-> ListId(i), title |-> "Sedan", status |-> st[i]]]
            : st \in [1..n -> StatusInputs]} : n \in 0..MaxListLen}

ListInputs == {[kind |-> "vehicles", list |-> l] : l \in VehicleLists}

\* the argument of a codec function: a record to encode
RecordInputs ==
  {[kind |-> "vehicle", v |-> v] : v \in CodecVehicles}
    \cup {[kind |-> "dealer", v |-> d] : d \in CodecDealers}

\* the settings of an update request, as Object.entries lists them: up to
\* two entries with different keys, an unknown key among them
SettingsEntries ==
  {<<"storefrontLogoUrl", "https://cdn/1.jpg">>, <<"storefrontLogoUrl", "">>,
   <<"storefrontHeroVideoUrl", " https://cdn/2.jpg ">>, <<"theme", "dark">>,
   <<"theme", "light">>}

SettingsUpdates ==
  {<<>>} \cup {<<e>> : e \in SettingsEntries}
    \cup {p \in {<<e, f>> : e \in SettingsEntries, f \in SettingsEntries} : p[1][1] # p[2][1]}

\* a dealer's token is issued by a login, which needs the dealer's admin row
Registered(s, dealerId) ==
  /\ ADMIN_SHEET_TITLE \in DOMAIN s
  /\ \E r \in DOMAIN s[ADMIN_SHEET_TITLE].cells :
       r >= 2 /\ normalizeDealerId(Cell(s[ADMIN_SHEET_TITLE].cells[r], 1)) = dealerId

(* ------------------------------- state -------------------------------- *)

NoSheets == <<>>

Idle == [op |-> "none", dealerId |-> "", arg |-> "", arg2 |-> "", key |-> "", code |-> 0,
         found |-> FALSE, rowNum |-> 0, passcode |-> "", reads |-> 0, structs |-> 0,
         writes |-> 0, out |-> <<>>]

\* no argument drawn, no upsert in flight
NoInput == [kind |-> "none"]
NoCalls == <<>>

\* A settings tab the operator edited in the sheet: a row with a key the
\* program does not know, the logo twice (once with spaces around the key),
\* a blank row in between, no row for the hero video.
EditedSettings ==
  SETTINGS_SHEET_TITLE :>
    [rowCount |-> SettingsMinRows,
     cells |-> (1 :> settingsHeaders
                @@ 2 :> <<"theme", "dark", "T0">>
                @@ 3 :> <<"storefrontLogoUrl", "https://cdn/1.jpg", "T0">>
                @@ 5 :> <<" storefrontLogoUrl ", " https://cdn/2.jpg ", "T0">>)]

\* A spreadsheet in use: dealer AB123 was created, three leads came in, and
\* the operator cleared the second lead's row in the sheet.
UsedSheets ==
  LET body == CHOOSE b \in LeadBodies : b.dealerId = "AB123"
  IN Only({Only({Only({Only({
       [l3.c.s EXCEPT !["AB123"].cells =
          [r \in DOMAIN l3.c.s["AB123"].cells \ {DEALER_LEADS_START_ROW + 2} |->
             l3.c.s["AB123"].cells[r]]]
       : l3 \in {postPublicLeads(l2.c.s, body, "lead_cdef01234567", 0)}})
       : l2 \in {postPublicLeads(l1.c.s, body, "lead_aaaaaaaaaaaa", 0)}})
       : l1 \in {postPublicLeads(d.c.s, body, "lead_0123456789ab", 0)}})
       : d \in {postAdminDealers(NoSheets,
                                  [dealerId |-> "AB123", name |-> "Ace Motors",
                                   status |-> "", whatsapp |-> "", logoUrl |-> "",
                                   passcode |-> ""],
                                  "111111", "5a17", 0)}})

\* The spreadsheet in use, with a second dealer and two vehicles of AB123
\* in the rows a tab from before the lead section holds them in; the
\* operator cleared the admin row and the vehicle row in between.
GappySheets ==
  [UsedSheets EXCEPT
     ![ADMIN_SHEET_TITLE].cells =
        @ @@ (4 :> <<"CD456", "Best Cars", "active", "", "", "", "", nowIso(0), nowIso(0)>>),
     !["AB123"].cells =
        @ @@ (2 :> <<"VEH-0A1B2C", "Sedan", "Kia", "Rio", "2020", "15000", "available",
                     "", "", "", "[]", nowIso(0)>>
              @@ 4 :> <<"VEH-D4E5F6", "Coupe", "Kia", "Rio", "", "", "sold",
                        "", "", "", "[]", nowIso(0)>>)]

\* A spreadsheet from before the lead section: the dealer tab has the grid a
\* new tab is given, the headers are missing, and a vehicle is in row 2; the
\* admin tab has the header and a dealer row from before the passcode
\* column, the settings tab a header of two columns and one setting.
LegacySheets ==
  "AB123" :>
     [rowCount |-> DefaultRows,
      cells |-> [r \in {2} |->
                   <<"VEH-0A1B2C", "Sedan", "Kia", "Rio", "2020", "15000", "available",
                     "", "", "[]", nowIso(0)>>]]
  @@ ADMIN_SHEET_TITLE :>
     [rowCount |-> DefaultRows,
      cells |-> (1 :> <<"dealerId", "name", "status", "passcodeHash", "whatsapp",
                        "logoUrl", "createdAt", "updatedAt">>
                 @@ 2 :> <<"AB123", "Ace Motors", "active", "5a17$$k", "", "",
                           nowIso(0), nowIso(0)>>)]
  @@ SETTINGS_SHEET_TITLE :>
     [rowCount |-> DefaultRows,
      cells |-> (1 :> <<"key", "value">>
                 @@ 2 :> <<"storefrontLogoUrl", "https://cdn/1.jpg">>)]

Init ==
  /\ (sheet = NoSheets \/ sheet = UsedSheets)
  /\ now = 0
  /\ prev = sheet
  /\ last = Idle
  /\ inp = NoInput
  /\ calls = NoCalls

\* the handler's effect, and the record of what it did; out is what it
\* returned, where a claim is about that
DoneWith(op, dealerId, arg, arg2, resp, ticks, out) ==
  \E r \in {resp} :
    /\ sheet' = r.c.s
    /\ prev' = sheet
    /\ now' = IF ticks /\ r.code = 200 THEN now + 1 ELSE now
    /\ last' = [op |-> op, dealerId |-> dealerId, arg |-> arg, arg2 |-> arg2, key |-> r.key,
                code |-> r.code, found |-> r.found, rowNum |-> r.rowNum,
                passcode |-> r.passcode, reads |-> r.c.reads, structs |-> r.c.structs,
                writes |-> r.c.writes, out |-> out]
    /\ UNCHANGED <<inp, calls>>

Done(op, dealerId, arg, arg2, resp, ticks) ==
  DoneWith(op, dealerId, arg, arg2, resp, ticks, <<>>)

(* ------------------------------ actions ------------------------------- *)

AdminCreateDealer ==
  \E dealerId \in DealerIdInputs, name \in Names, passcode \in {""} \cup TypedPasscodes,
     contact \in DealerContacts, gen \in Gen6, salt \in Salts :
    /\ now < MaxClock
    /\ Done("createDealer", dealerId, name, passcode,
            postAdminDealers(sheet,
                             [dealerId |-> dealerId, name |-> name,
                              status |-> contact.status, whatsapp |-> contact.whatsapp,
                              logoUrl |-> "", passcode |-> passcode],
                             gen, salt, now + 1),
            TRUE)

AdminResetPasscode ==
  \E dealerId \in DealerIdInputs, gen \in Gen6, salt \in Salts :
    /\ now < MaxClock
    /\ Done("resetPasscode", dealerId, "", "",
            postAdminResetPasscode(sheet, [dealerId |-> dealerId], gen, salt, now + 1),
            TRUE)

DealerLogin ==
  \E dealerId \in DealerIdInputs, passcode \in LoginPasscodes :
    Done("login", dealerId, passcode, "",
         postDealerLogin(sheet, [dealerId |-> dealerId, passcode |-> passcode]), FALSE)

DealerSaveVehicle ==
  \E dealerId \in TokenDealerIds, body \in VehicleBodies, gen \in VehicleIds :
    /\ now < MaxClock
    /\ Registered(sheet, dealerId)
    /\ Done("saveVehicle", dealerId, body.vehicleId, body.title,
            postDealerVehicles(sheet, dealerId, body, gen, now + 1), TRUE)

\* POST /api/dealer/vehicles with a vehicleId of the client's choosing
DealerSaveChosenId ==
  \E dealerId \in TokenDealerIds, body \in ChosenIdBodies, gen \in VehicleIds :
    /\ now < MaxClock
    /\ Registered(sheet, dealerId)
    /\ Done("saveVehicle", dealerId, body.vehicleId, body.title,
            postDealerVehicles(sheet, dealerId, body, gen, now + 1), TRUE)

PublicListVehicles ==
  \E dealerId \in DealerIdInputs :
    Done("listVehicles", dealerId, "", "", getPublicVehicles(sheet, dealerId), FALSE)

PublicSubmitLead ==
  \E body \in LeadBodies, gen \in LeadIds :
    /\ now < MaxClock
    /\ Done("submitLead", body.dealerId, "", "",
            postPublicLeads(sheet, body, gen, now + 1), TRUE)

\* dealerAppendLead called with a lead record of the caller's making
AppendLeadStatuses == {"", "booked"}

AppendLead ==
  \E dealerId \in TokenDealerIds, status \in AppendLeadStatuses, gen \in LeadIds :
    /\ now < MaxClock
    /\ Registered(sheet, dealerId)
    /\ \E a \in {dealerAppendLead(
                    Ctx(sheet), dealerId,
                    [leadId |-> "", vehicleId |-> "", type |-> "", name |-> "Jane",
                     phone |-> "8765551234", email |-> "", preferredDate |-> "",
                     preferredTime |-> "", notes |-> "", source |-> "", status |-> status],
                    gen, now + 1)} :
         Done("appendLead", dealerId, status, "",
              Resp(a.c, 200, a.leadId, FALSE, a.rowNum, ""), TRUE)

\* dealerAppendLead called with a lead record that carries its own leadId
AppendLeadOwnId ==
  \E dealerId \in TokenDealerIds, leadId \in LeadIds, gen \in LeadIds :
    /\ now < MaxClock
    /\ Registered(sheet, dealerId)
    /\ \E a \in {dealerAppendLead(
                    Ctx(sheet), dealerId,
                    [leadId |-> leadId, vehicleId |-> "", type |-> "", name |-> "John",
                     phone |-> "8765550000", email |-> "", preferredDate |-> "",
                     preferredTime |-> "", notes |-> "", source |-> "", status |-> ""],
                    gen, now + 1)} :
         Done("appendLeadOwnId", dealerId, leadId, "",
              Resp(a.c, 200, a.leadId, FALSE, a.rowNum, ""), TRUE)

UpdateLeadStatus ==
  \E dealerId \in DealerIdInputs, leadId \in LeadIds, status \in LeadStatuses :
    Done("leadStatus", dealerId, status, "",
         postLeadsStatus(sheet, dealerId, [leadId |-> leadId, status |-> status]), FALSE)

PublicConfig == Done("config", "", "", "", getPublicConfig(sheet), FALSE)

\* the settings handlers; out is the settings object of the response
AdminGetSettings ==
  \E g \in {getAdminSettings(sheet)} :
    DoneWith("getSettings", "", "", "", Resp(g.c, 200, "", FALSE, 0, ""), FALSE, g.v)

AdminUpdateSettings ==
  \E settings \in SettingsUpdates :
    /\ now < MaxClock
    /\ \E u \in {postAdminSettings(sheet, [settings |-> settings], now + 1)} :
         DoneWith("updateSettings", "", settings, "", Resp(u.c, 200, "", FALSE, 0, ""),
                  TRUE, u.v)

\* ensureDealerTabLayout in a process started under the environment inp;
\* rowNum is the row count it asks ensureTab for
ConfiguredLayout ==
  \E dealerId \in DealerIdInputs :
    \E c \in {ensureDealerTabLayoutWith(Ctx(sheet), normalizeDealerId(dealerId),
                                         leadsStartRow(inp), dealerMinRows(inp))} :
      Done("ensureDealerTabLayout", normalizeDealerId(dealerId), "", "",
           Resp(c, 200, "", FALSE, dealerMinRows(inp), ""), FALSE)

\* The list operations; out is the array returned.
ListDealers ==
  \E l \in {adminListDealers(Ctx(sheet))} :
    DoneWith("adminListDealers", "", "", "", Resp(l.c, 200, "", FALSE, 0, ""), FALSE,
             Pack(l.v))

\* GET /api/dealer/vehicles
DealerListVehicles ==
  \E dealerId \in TokenDealerIds :
    /\ Registered(sheet, dealerId)
    /\ \E l \in {dealerListVehicles(Ctx(sheet), dealerId)} :
         DoneWith("dealerListVehicles", dealerId, "", "",
                  Resp(l.c, 200, "", FALSE, 0, ""), FALSE, l.v)

\* GET /api/dealer/leads
DealerListLeads ==
  \E dealerId \in TokenDealerIds :
    /\ Registered(sheet, dealerId)
    /\ \E l \in {dealerListLeads(Ctx(sheet), dealerId)} :
         DoneWith("dealerListLeads", dealerId, "", "",
                  Resp(l.c, 200, "", FALSE, 0, ""), FALSE, Pack(l.v))

\* One call of an upsert runs from one await to the next; between two
\* steps of a call the other call may run.
Stepped(i, op, c, pc, found) ==
  /\ sheet' = c.s
  /\ prev' = sheet
  /\ last' = [Idle EXCEPT !.op = op, !.key = calls[i].key, !.rowNum = i,
                          !.reads = c.reads, !.structs = c.structs, !.writes = c.writes]
  /\ calls' = [calls EXCEPT ![i].pc = pc, ![i].found = found]
  /\ UNCHANGED <<now, inp>>

\* await ensureDealerTabLayout / await ensureAdminSheet
UpsertProvision ==
  \E i \in CallIds :
    /\ calls[i].pc = "start"
    /\ \E c \in {IF calls[i].kind = "vehicle"
                  THEN ensureDealerTabLayout(Ctx(sheet), "AB123")
                  ELSE ensureAdminSheet(Ctx(sheet))} :
         Stepped(i, "upsertProvision", c, "provisioned", -1)

\* await values.get and the loop over the rows / await adminListDealers and
\* findIndex
UpsertScan ==
  \E i \in CallIds :
    /\ calls[i].pc = "provisioned"
    /\ \/ /\ calls[i].kind = "vehicle"
          /\ \E c \in {valuesGet(Ctx(sheet))} :
               Stepped(i, "upsertScan", c, "scanned",
                       findVehicleRow(RowsFrom(sheet, "AB123", 2, DealerWidth), calls[i].key))
       \/ /\ calls[i].kind = "dealer"
          /\ \E l \in {adminListDealers(Ctx(sheet))} :
               Stepped(i, "upsertScan", l.c, "scanned", findDealerIndex(l.v, calls[i].key))

\* await values.append / values.update, by what the scan returned
UpsertWrite ==
  \E i \in CallIds :
    /\ calls[i].pc = "scanned"
    /\ \E c \in {IF calls[i].kind = "vehicle"
                  THEN vehicleWrite(Ctx(sheet), "AB123", calls[i].found,
                                    vehicleRowValues(vehicleOfCall(calls[i]), nowIso(now)))
                  ELSE dealerWrite(Ctx(sheet), calls[i].found,
                                   dealerRowValues(dealerOfCall(calls[i]), now))} :
         Stepped(i, "upsertWrite", c, "done", calls[i].found)

\* adminUpsertDealer called with a record of the caller's making; arg and
\* arg2 are the record's createdAt and updatedAt
UpsertDealerRecord ==
  \E dealer \in UpsertDealerRecords :
    /\ now < MaxClock
    /\ \E u \in {adminUpsertDealer(Ctx(sheet), dealer, now + 1)} :
         Done("adminUpsertDealer", dealer.dealerId, dealer.createdAt, dealer.updatedAt,
              Resp(u.c, 200, dealer.dealerId, u.idx # -1, u.rowNum, ""), TRUE)

\* The provisioning functions, as every repository call runs them first.
ProvisionTabs == {ADMIN_SHEET_TITLE, SETTINGS_SHEET_TITLE, "AB123", "CD456"}
ProvisionMinRows == {SettingsMinRows, AdminMinRows, DefaultRows, DEALER_MIN_ROWS}

Provisioned(op, title, c) ==
  Done(op, title, "", "", Resp(c, 200, "", FALSE, 0, ""), FALSE)

EnsureTab ==
  \E title \in ProvisionTabs, minRows \in ProvisionMinRows :
    \E c \in {ensureTab(Ctx(sheet), title, minRows)} :
      Done("ensureTab", title, "", "", Resp(c, 200, "", FALSE, minRows, ""), FALSE)

EnsureAdminSheet ==
  \E c \in {ensureAdminSheet(Ctx(sheet))} :
    Provisioned("ensureAdminSheet", ADMIN_SHEET_TITLE, c)

EnsureSettingsSheet ==
  \E c \in {ensureSettingsSheet(Ctx(sheet))} :
    Provisioned("ensureSettingsSheet", SETTINGS_SHEET_TITLE, c)

EnsureDealerTabLayout ==
  \E dealerId \in DealerIdInputs :
    \E c \in {ensureDealerTabLayout(Ctx(sheet), normalizeDealerId(dealerId))} :
      Provisioned("ensureDealerTabLayout", dealerId, c)

\* The codec functions applied to the drawn argument. What the encoder
\* wrote comes back from values.get without its trailing empty cells.
Applied(op, out) ==
  /\ last' = [Idle EXCEPT !.op = op, !.out = out]
  /\ UNCHANGED <<sheet, now, prev, inp, calls>>

RoundTripVehicle ==
  /\ inp.kind = "vehicle"
  /\ Applied("roundTripVehicle",
             <<decodeVehicle(TrimRow(vehicleRowValues(inp.v, nowIso(now))), "AB123")>>)

RoundTripDealer ==
  /\ inp.kind = "dealer"
  /\ Applied("roundTripDealer", <<decodeDealer(TrimRow(dealerRowValues(inp.v, now)))>>)

DecodeVehicleRow ==
  /\ inp.kind = "vehicleRow"
  /\ Applied("decodeVehicle", <<decodeVehicle(inp.row, "AB123")>>)

DecodeDealerRow ==
  /\ inp.kind = "dealerRow"
  /\ Applied("decodeDealer", <<decodeDealer(inp.row)>>)

FilterPublicVehicles ==
  /\ inp.kind = "vehicles"
  /\ Applied("filterPublicVehicles", filterPublicVehicles(inp.list))

(* --------------------------- specifications --------------------------- *)

\* the dealer registry: the admin tab and the handlers that write it
NextAdmin ==
  \/ AdminCreateDealer
  \/ AdminResetPasscode
  \/ DealerLogin

SpecAdmin == Init /\ [][NextAdmin]_vars

\* a dealer tab: its vehicles and its leads
NextDealer ==
  \/ DealerSaveVehicle
  \/ PublicListVehicles
  \/ PublicSubmitLead
  \/ AppendLead
  \/ UpdateLeadStatus

SpecDealer == Init /\ [][NextDealer]_vars

\* provisioning alone, also from a spreadsheet laid out by an older version
InitProvision ==
  /\ (sheet = NoSheets \/ sheet = UsedSheets \/ sheet = LegacySheets)
  /\ now = 0
  /\ prev = sheet
  /\ last = Idle
  /\ inp = NoInput
  /\ calls = NoCalls

NextProvision ==
  \/ EnsureTab
  \/ EnsureAdminSheet
  \/ EnsureSettingsSheet
  \/ EnsureDealerTabLayout
  \/ PublicConfig

SpecProvision == InitProvision /\ [][NextProvision]_vars

\* the list operations over tabs that vehicle saves and leads fill
InitLists ==
  /\ (sheet = NoSheets \/ sheet = UsedSheets \/ sheet = GappySheets)
  /\ now = 0
  /\ prev = sheet
  /\ last = Idle
  /\ inp = NoInput
  /\ calls = NoCalls

NextLists ==
  \/ DealerSaveVehicle
  \/ PublicSubmitLead
  \/ ListDealers
  \/ DealerListVehicles
  \/ DealerListLeads

SpecLists == InitLists /\ [][NextLists]_vars

\* the two tables of a dealer tab under vehicle saves with chosen ids
NextOverlap ==
  \/ DealerSaveChosenId
  \/ PublicSubmitLead
  \/ AppendLeadOwnId
  \/ DealerListLeads

SpecOverlap == InitLists /\ [][NextOverlap]_vars

\* the dealer tab layout under every environment
InitConfig ==
  /\ (sheet = NoSheets \/ sheet = UsedSheets \/ sheet = LegacySheets)
  /\ now = 0
  /\ prev = sheet
  /\ last = Idle
  /\ inp \in Environments
  /\ calls = NoCalls

NextConfig == ConfiguredLayout

SpecConfig == InitConfig /\ [][NextConfig]_vars

\* two upserts in flight on a spreadsheet in use
InitRace ==
  /\ (sheet = UsedSheets \/ sheet = GappySheets)
  /\ now = 0
  /\ prev = sheet
  /\ last = Idle
  /\ inp = NoInput
  /\ calls \in [CallIds -> UpsertCalls]

NextRace ==
  \/ UpsertProvision
  \/ UpsertScan
  \/ UpsertWrite

SpecRace == InitRace /\ [][NextRace]_vars

\* Requests as a client may send them: ids that are not two letters and
\* three digits, and fields left empty or blank.
InvalidDealerIds == {"A1234", "AB12", "AB1234", "ABC12"}
BlankTexts == {"", " "}

\* POST /api/admin/dealers with any dealerId
CheckedCreateDealer ==
  \E dealerId \in {"AB123"} \cup InvalidDealerIds, name \in Names, gen \in Gen6,
     salt \in Salts :
    /\ now < MaxClock
    /\ Done("createDealerChecked", dealerId, name, "",
            postAdminDealers(sheet,
                             [dealerId |-> dealerId, name |-> name, status |-> "",
                              whatsapp |-> "", logoUrl |-> "", passcode |-> ""],
                             gen, salt, now + 1),
            TRUE)

\* POST /api/public/leads with any dealerId, name and phone; arg and arg2
\* are the name and the phone of the body
CheckedSubmitLead ==
  \E dealerId \in {"AB123"} \cup InvalidDealerIds, name \in {"Jane"} \cup BlankTexts,
     phone \in {"8765551234"} \cup BlankTexts, gen \in LeadIds :
    /\ now < MaxClock
    /\ Done("submitLeadChecked", dealerId, name, phone,
            postPublicLeads(sheet,
                            [dealerId |-> dealerId, vehicleId |-> "", type |-> "",
                             name |-> name, phone |-> phone, email |-> "",
                             preferredDate |-> "", preferredTime |-> "", notes |-> "",
                             source |-> ""],
                            gen, now + 1),
            TRUE)

\* POST /api/dealer/vehicles with any make and model; arg and arg2 are the
\* make and the model of the body
CheckedSaveVehicle ==
  \E dealerId \in TokenDealerIds, make \in {"Kia"} \cup BlankTexts,
     model \in {"Rio"} \cup BlankTexts, gen \in VehicleIds :
    /\ now < MaxClock
    /\ Registered(sheet, dealerId)
    /\ Done("saveVehicleChecked", dealerId, make, model,
            postDealerVehicles(sheet, dealerId,
                               [vehicleId |-> "", title |-> "Sedan", make |-> make,
                                model |-> model, year |-> <<2020>>, price |-> 15000,
                                status |-> "", notes |-> "", heroImage |-> "",
                                heroVideo |-> "", images |-> <<>>],
                               gen, now + 1),
            TRUE)

NextChecked ==
  \/ CheckedCreateDealer
  \/ CheckedSubmitLead
  \/ CheckedSaveVehicle

SpecChecked == Init /\ [][NextChecked]_vars

\* The spreadsheet in use, the dealerId of AB123's admin row typed in lower
\* case by the operator of the sheet.
LowerCaseSheets ==
  [UsedSheets EXCEPT
     ![ADMIN_SHEET_TITLE].cells[2] = <<"ab123">> \o SubSeq(@, 2, Len(@))]

\* the dealer registry over a row whose id is spelled in lower case
InitSpelling ==
  /\ (sheet = UsedSheets \/ sheet = LowerCaseSheets)
  /\ now = 0
  /\ prev = sheet
  /\ last = Idle
  /\ inp = NoInput
  /\ calls = NoCalls

SpecSpelling == InitSpelling /\ [][NextAdmin]_vars

(* -------------------- one store call per step ------------------------- *)

\* A repository call in flight, taken one store call at a time. A call is
\* [kind, dealerId, pc, issued, error, failedAt]: a dealerListLeads or a
\* dealerAppendLead for dealerId; pc is the await it stands at, issued the
\* number of store calls it has issued, error what an awaited call rejected
\* with ("" for none) and failedAt the value of issued at that rejection.
StoreCalls ==
  [kind : {"list", "append"}, dealerId : {"AB123", "CD456"}, pc : {"meta"},
   issued : {0}, error : {""}, failedAt : {-1}]

\* an awaited call rejects and the function awaits it once more
rejectedRetry(pc) == pc

\* where an async function stands after an awaited call rejects: the await
\* throws, no try encloses it, the function is over
rejected(pc) == "failed"

\* a store that adds a tab whatever the titles it holds
addSheetNeverRefused(s, title) == FALSE

\* the store's answer to addSheet: refused when a tab carries the title
addSheetRefused(s, title) == title \in DOMAIN s

\* the number of tabs per title
TabCount(s) == [kind |-> "tabs", count |-> [title \in DOMAIN s |-> 1]]

\* the await that follows the header checks of ensureDealerTabLayout
afterLayout(kind) == IF kind = "list" THEN "read" ELSE "append"

StoreStepped(i, op, s, pc, error) ==
  /\ sheet' = s
  /\ prev' = sheet
  /\ last' = [Idle EXCEPT !.op = op, !.dealerId = calls[i].dealerId, !.rowNum = i]
  /\ calls' = [calls EXCEPT
                 ![i].pc = pc,
                 ![i].issued = @ + 1,
                 ![i].error = IF @ = "" THEN error ELSE @,
                 ![i].failedAt = IF @ = -1 /\ error # "" THEN calls[i].issued + 1 ELSE @]
  /\ UNCHANGED now

\* ensureTab: const meta = await getSpreadsheetMeta(sheets)
TabMeta ==
  \E i \in CallIds :
    /\ calls[i].pc = "meta"
    /\ StoreStepped(i, "meta", sheet,
                    IF safeDealerTabName(calls[i].dealerId) \in DOMAIN sheet
                    THEN IF currentRows(sheet[safeDealerTabName(calls[i].dealerId)])
                              < DEALER_MIN_ROWS
                         THEN "rows" ELSE "veh"
                    ELSE "add",
                    "")
    /\ UNCHANGED inp

\* ensureTab: await batchUpdate addSheet
TabAdd ==
  \E i \in CallIds :
    /\ calls[i].pc = "add"
    /\ \E title \in {safeDealerTabName(calls[i].dealerId)} :
         IF addSheetRefused(sheet, title)
         THEN /\ StoreStepped(i, "addSheet", sheet, rejected("add"), "refused")
              /\ UNCHANGED inp
         ELSE /\ StoreStepped(i, "addSheet", addSheet(Ctx(sheet), title).s, "meta2", "")
              /\ inp' = [inp EXCEPT !.count =
                           Put(inp.count, title,
                               IF title \in DOMAIN inp.count THEN inp.count[title] + 1 ELSE 1)]

\* ensureTab: const meta2 = await getSpreadsheetMeta(sheets), after addSheet
TabMeta2 ==
  \E i \in CallIds :
    /\ calls[i].pc = "meta2"
    /\ StoreStepped(i, "meta2", sheet,
                    IF currentRows(sheet[safeDealerTabName(calls[i].dealerId)]) < DEALER_MIN_ROWS
                    THEN "rows" ELSE "veh",
                    "")
    /\ UNCHANGED inp

\* ensureTab: await ensureRows(sheets, props.sheetId, minRows)
TabRows ==
  \E i \in CallIds :
    /\ calls[i].pc = "rows"
    /\ StoreStepped(i, "ensureRows",
                    ensureRows(Ctx(sheet), safeDealerTabName(calls[i].dealerId),
                               DEALER_MIN_ROWS).s,
                    "meta3", "")
    /\ UNCHANGED inp

\* ensureTab: the getSpreadsheetMeta after ensureRows
TabMeta3 ==
  \E i \in CallIds :
    /\ calls[i].pc = "meta3"
    /\ StoreStepped(i, "meta3", sheet, "veh", "")
    /\ UNCHANGED inp

\* ensureDealerTabLayout: await values.get of a header range
HeaderGet ==
  \E i \in CallIds :
    /\ calls[i].pc \in {"veh", "lead"}
    /\ \E title \in {safeDealerTabName(calls[i].dealerId)} :
         IF calls[i].pc = "veh"
         THEN StoreStepped(i, "headerGet", sheet,
                           IF Join(RowAt(sheet, title, 1, Len(vehHeaders))) # Join(vehHeaders)
                           THEN "vehPut" ELSE "lead",
                           "")
         ELSE StoreStepped(i, "headerGet", sheet,
                           IF Join(RowAt(sheet, title, DEALER_LEADS_START_ROW, Len(leadHeaders)))
                                # Join(leadHeaders)
                           THEN "leadPut" ELSE afterLayout(calls[i].kind),
                           "")
    /\ UNCHANGED inp

\* ensureDealerTabLayout: await values.update of a header range
HeaderPut ==
  \E i \in CallIds :
    /\ calls[i].pc \in {"vehPut", "leadPut"}
    /\ \E title \in {safeDealerTabName(calls[i].dealerId)} :
         IF calls[i].pc = "vehPut"
         THEN StoreStepped(i, "headerPut", valuesUpdate(Ctx(sheet), title, 1, 1, vehHeaders).s,
                           "lead", "")
         ELSE StoreStepped(i, "headerPut",
                           valuesUpdate(Ctx(sheet), title, DEALER_LEADS_START_ROW, 1,
                                        leadHeaders).s,
                           afterLayout(calls[i].kind), "")
    /\ UNCHANGED inp

\* dealerListLeads: await values.get of the lead rows
ListRead ==
  \E i \in CallIds :
    /\ calls[i].pc = "read"
    /\ StoreStepped(i, "read", sheet, "done", "")
    /\ UNCHANGED inp

\* dealerAppendLead: await values.append
AppendRow ==
  \E i \in CallIds, gen \in LeadIds :
    /\ calls[i].pc = "append"
    /\ StoreStepped(i, "append",
                    leadAppend(Ctx(sheet), safeDealerTabName(calls[i].dealerId),
                               leadRowValues(
                                 [leadId |-> "", vehicleId |-> "", type |-> "", name |-> "Jane",
                                  phone |-> "8765551234", email |-> "", preferredDate |-> "",
                                  preferredTime |-> "", notes |-> "", source |-> "",
                                  status |-> ""],
                                 gen, nowIso(now))).s,
                    "done", "")
    /\ UNCHANGED inp

\* the store call a call stands at fails (network, permission, quota)
StoreFails ==
  \E i \in CallIds :
    /\ calls[i].pc \notin {"done", "failed"}
    /\ StoreStepped(i, "storeError", sheet, rejected(calls[i].pc), "store")
    /\ UNCHANGED inp

InitStore ==
  /\ (sheet = NoSheets \/ sheet = UsedSheets)
  /\ now = 0
  /\ prev = sheet
  /\ last = Idle
  /\ inp = TabCount(sheet)
  /\ calls \in [CallIds -> StoreCalls]

NextStore ==
  \/ TabMeta
  \/ TabAdd
  \/ TabMeta2
  \/ TabRows
  \/ TabMeta3
  \/ HeaderGet
  \/ HeaderPut
  \/ ListRead
  \/ AppendRow
  \/ StoreFails

SpecStore == InitStore /\ [][NextStore]_vars

\* the admin tab under upserts of the callers' records
NextUpsert ==
  \/ UpsertDealerRecord
  \/ AdminCreateDealer
  \/ ListDealers

SpecUpsert == InitLists /\ [][NextUpsert]_vars

\* the settings tab and its two handlers
InitSettings ==
  /\ (sheet = NoSheets \/ sheet = EditedSettings)
  /\ now = 0
  /\ prev = sheet
  /\ last = Idle
  /\ inp = NoInput
  /\ calls = NoCalls

NextSettings ==
  \/ AdminGetSettings
  \/ AdminUpdateSettings

SpecSettings == InitSettings /\ [][NextSettings]_vars

\* the row codec on its own: an argument is drawn, the functions are applied
CodecInputs == RecordInputs \cup RowInputs \cup ListInputs

InitCodec ==
  /\ sheet = NoSheets
  /\ now = 0
  /\ prev = sheet
  /\ last = Idle
  /\ inp \in CodecInputs
  /\ calls = NoCalls

NextCodec ==
  \/ RoundTripVehicle
  \/ RoundTripDealer
  \/ DecodeVehicleRow
  \/ DecodeDealerRow
  \/ FilterPublicVehicles

SpecCodec == InitCodec /\ [][NextCodec]_vars

Next == NextAdmin \/ NextDealer \/ NextProvision

Spec == Init /\ [][Next]_vars

(* ------------------------------ claims -------------------------------- *)

\* the populated rows of a tab; none for a tab that does not exist
CellsOf(s, title) == IF title \in DOMAIN s THEN s[title].cells ELSE <<>>

\* the rows of a tab whose trimmed cell in column col is key
RowsWith(s, title, col, key) ==
  {r \in DOMAIN CellsOf(s, title) : Trim(Cell(CellsOf(s, title)[r], col)) = key}

\* the dealer rows of the admin tab whose id is dealerId in some letter case
AdminRowsOf(s, dealerId) ==
  {r \in DOMAIN CellsOf(s, ADMIN_SHEET_TITLE) :
     r >= 2 /\ normalizeDealerId(Cell(CellsOf(s, ADMIN_SHEET_TITLE)[r], 1))
                 = normalizeDealerId(dealerId)}

\* every row a tab held before the last operation is still there, unchanged
OldRowsKept(title) ==
  \A r \in DOMAIN CellsOf(prev, title) :
    r \in DOMAIN CellsOf(sheet, title) /\ CellsOf(sheet, title)[r] = CellsOf(prev, title)[r]

SavedVehicle == last.op = "saveVehicle" /\ last.code = 200
CreatedDealer == last.op = "createDealer" /\ last.code = 200
AppendedLead == last.op \in {"appendLead", "submitLead"} /\ last.code = 200
UpdatedLead == last.op = "leadStatus" /\ last.code = 200
LeadTab == normalizeDealerId(Trim(last.dealerId))

\* C1: a vehicle upsert whose vehicleId is in exactly one row of the dealer
\* tab overwrites that row in place: afterwards the same single row carries
\* the id, the tab has the same populated rows and the same row count.
C1_UpdateKeepsOneRow ==
  (SavedVehicle /\ Cardinality(RowsWith(prev, last.dealerId, 1, last.key)) = 1) =>
    /\ last.found
    /\ RowsWith(sheet, last.dealerId, 1, last.key) = RowsWith(prev, last.dealerId, 1, last.key)
    /\ RowsWith(sheet, last.dealerId, 1, last.key) = {last.rowNum}
    /\ DOMAIN CellsOf(sheet, last.dealerId) = DOMAIN CellsOf(prev, last.dealerId)
    /\ sheet[last.dealerId].rowCount = prev[last.dealerId].rowCount

\* an existing vehicle was saved again with another title
C1_Witness ==
  /\ SavedVehicle
  /\ last.arg # ""
  /\ Cardinality(RowsWith(prev, last.dealerId, 1, last.key)) = 1
  /\ Cell(CellsOf(sheet, last.dealerId)[last.rowNum], 2) = last.arg2
  /\ Cell(CellsOf(prev, last.dealerId)[last.rowNum], 2) # last.arg2

\* C2: a vehicle upsert whose vehicleId is in no row of the dealer tab adds
\* exactly one row, which carries the id and is the row after the last
\* populated row, and leaves every row the tab held unchanged.
C2_InsertAppendsOneRow ==
  (SavedVehicle /\ RowsWith(prev, last.dealerId, 1, last.key) = {}) =>
    /\ ~last.found
    /\ OldRowsKept(last.dealerId)
    /\ DOMAIN CellsOf(sheet, last.dealerId) \ DOMAIN CellsOf(prev, last.dealerId)
         = {last.rowNum}
    /\ RowsWith(sheet, last.dealerId, 1, last.key) = {last.rowNum}
    /\ \A r \in DOMAIN CellsOf(prev, last.dealerId) : r < last.rowNum
    /\ last.rowNum - 1 \in DOMAIN CellsOf(prev, last.dealerId)

\* a vehicle with an id of the caller's was appended to a tab that held rows
C2_Witness ==
  /\ SavedVehicle
  /\ last.arg # ""
  /\ ~last.found
  /\ RowsWith(prev, last.dealerId, 1, last.key) = {}
  /\ Cardinality(DOMAIN CellsOf(prev, last.dealerId)) >= 3
  /\ Cell(CellsOf(sheet, last.dealerId)[last.rowNum], 1) = last.arg

\* C3: a save-vehicle request without a vehicleId is an insert: the id it
\* generates is the key of no row the tab held, and no such row is changed.
C3_GeneratedIdIsInsert ==
  (SavedVehicle /\ last.arg = "") =>
    /\ ~last.found
    /\ RowsWith(prev, last.dealerId, 1, last.key) = {}
    /\ OldRowsKept(last.dealerId)

\* C4: a create-dealer request for an id the admin tab holds, in any letter
\* case, with another name, rewrites that one row: the admin tab keeps its
\* rows, the row keeps its createdAt, and its name and updatedAt are the
\* request's name and the time of the request.
C4_SecondCreateUpdates ==
  \A r \in AdminRowsOf(prev, last.dealerId) :
    (CreatedDealer /\ Cell(CellsOf(prev, ADMIN_SHEET_TITLE)[r], 2) # last.arg) =>
      /\ AdminRowsOf(prev, last.dealerId) = {r}
      /\ last.rowNum = r
      /\ DOMAIN CellsOf(sheet, ADMIN_SHEET_TITLE) = DOMAIN CellsOf(prev, ADMIN_SHEET_TITLE)
      /\ Cell(CellsOf(sheet, ADMIN_SHEET_TITLE)[r], 8) = Cell(CellsOf(prev, ADMIN_SHEET_TITLE)[r], 8)
      /\ Cell(CellsOf(sheet, ADMIN_SHEET_TITLE)[r], 8) # ""
      /\ Cell(CellsOf(sheet, ADMIN_SHEET_TITLE)[r], 2) = last.arg
      /\ Cell(CellsOf(sheet, ADMIN_SHEET_TITLE)[r], 9) = nowIso(now)
      /\ Cell(CellsOf(sheet, ADMIN_SHEET_TITLE)[r], 9) # Cell(CellsOf(prev, ADMIN_SHEET_TITLE)[r], 9)

\* dealer AB123 was created again as "ab123" under another name
C4_Witness ==
  /\ CreatedDealer
  /\ last.dealerId = "ab123"
  /\ last.found
  /\ AdminRowsOf(prev, last.dealerId) # {}
  /\ \A r \in AdminRowsOf(prev, last.dealerId) :
       /\ Cell(CellsOf(prev, ADMIN_SHEET_TITLE)[r], 1) = "AB123"
       /\ Cell(CellsOf(prev, ADMIN_SHEET_TITLE)[r], 2) # last.arg

\* C5: no two rows of the admin tab carry the same dealerId.
C5_DealerIdUnique ==
  \A r1, r2 \in DOMAIN CellsOf(sheet, ADMIN_SHEET_TITLE) :
    r1 # r2 => Cell(CellsOf(sheet, ADMIN_SHEET_TITLE)[r1], 1)
                 # Cell(CellsOf(sheet, ADMIN_SHEET_TITLE)[r2], 1)

\* a passcode was reset in an admin tab that holds two dealers
C5_Witness ==
  /\ last.op = "resetPasscode"
  /\ last.code = 200
  /\ AdminRowsOf(sheet, "AB123") # {}
  /\ AdminRowsOf(sheet, "CD456") # {}

\* C6: creating a dealer the admin tab does not hold, with no passcode in
\* the request, returns a generated six-digit passcode, and the passcodeHash
\* written to the dealer's row verifies against it.
C6_GeneratedPasscodeVerifies ==
  (CreatedDealer /\ ~last.found /\ Trim(last.arg2) = "") =>
    /\ last.passcode \in Gen6
    /\ last.rowNum \in AdminRowsOf(sheet, last.dealerId)
    /\ verifyPasscode(last.passcode,
                      Cell(CellsOf(sheet, ADMIN_SHEET_TITLE)[last.rowNum], 4))

\* dealer CD456 was created without a passcode
C6_Witness ==
  /\ CreatedDealer
  /\ ~last.found
  /\ last.arg2 = ""
  /\ last.dealerId = "CD456"
  /\ Cell(CellsOf(sheet, ADMIN_SHEET_TITLE)[last.rowNum], 4) # ""

\* C7: dealerAppendLead adds its lead as one row below the lead header row,
\* a row the tab did not hold, with status "new" when the record has none,
\* and leaves every row the tab held unchanged.
C7_LeadAppendedBelowHeader ==
  AppendedLead =>
    /\ last.rowNum > DEALER_LEADS_START_ROW
    /\ last.rowNum \notin DOMAIN CellsOf(prev, LeadTab)
    /\ OldRowsKept(LeadTab)
    /\ {r \in DOMAIN CellsOf(sheet, LeadTab) \ DOMAIN CellsOf(prev, LeadTab) :
          r > DEALER_LEADS_START_ROW} = {last.rowNum}
    /\ Cell(CellsOf(sheet, LeadTab)[last.rowNum], 2) = last.key
    /\ Cell(CellsOf(sheet, LeadTab)[last.rowNum], DealerWidth)
         = IF last.op = "appendLead" /\ last.arg # "" THEN last.arg ELSE "new"

\* a lead with no status was appended below lead rows with a blank row
\* between them
C7_Witness ==
  /\ last.op = "appendLead"
  /\ last.code = 200
  /\ last.arg = ""
  /\ last.rowNum = DEALER_LEADS_START_ROW + 4
  /\ DEALER_LEADS_START_ROW + 2 \notin DOMAIN CellsOf(prev, LeadTab)
  /\ DEALER_LEADS_START_ROW + 3 \in DOMAIN CellsOf(prev, LeadTab)

\* C8: a lead status update that finds its lead changes the cell in column
\* L of the row that holds the leadId and nothing else: no tab is added, the
\* other tabs, the other rows and the other eleven cells of the row are as
\* they were.
C8_StatusUpdateWritesOneCell ==
  UpdatedLead =>
    /\ DOMAIN sheet = DOMAIN prev
    /\ \A title \in DOMAIN sheet : title # LeadTab => sheet[title] = prev[title]
    /\ sheet[LeadTab].rowCount = prev[LeadTab].rowCount
    /\ DOMAIN CellsOf(sheet, LeadTab) = DOMAIN CellsOf(prev, LeadTab)
    /\ \A r \in DOMAIN CellsOf(prev, LeadTab) :
         r # last.rowNum => CellsOf(sheet, LeadTab)[r] = CellsOf(prev, LeadTab)[r]
    /\ last.rowNum \in DOMAIN CellsOf(prev, LeadTab)
    /\ Cell(CellsOf(prev, LeadTab)[last.rowNum], 2) = last.key
    /\ \A i \in 1..(DealerWidth - 1) :
         Cell(CellsOf(sheet, LeadTab)[last.rowNum], i)
           = Cell(CellsOf(prev, LeadTab)[last.rowNum], i)
    /\ Cell(CellsOf(sheet, LeadTab)[last.rowNum], DealerWidth) = last.arg

\* the status of a lead whose row lies below a blank row was changed
C8_Witness ==
  /\ UpdatedLead
  /\ last.rowNum = DEALER_LEADS_START_ROW + 3
  /\ DEALER_LEADS_START_ROW + 1 \in DOMAIN CellsOf(prev, LeadTab)
  /\ DEALER_LEADS_START_ROW + 2 \notin DOMAIN CellsOf(prev, LeadTab)
  /\ Cell(CellsOf(prev, LeadTab)[last.rowNum], DealerWidth) = "new"
  /\ Cell(CellsOf(sheet, LeadTab)[last.rowNum], DealerWidth) = "booked"

\* a run of a provisioning function that only reads
ReadsOnly(c) == c.structs = 0 /\ c.writes = 0 /\ c.s = sheet

\* C9: in the state a provisioning function has left, a second run of it
\* with the same arguments adds no tab, resizes none and writes no cell.
C9_ProvisioningIdempotent ==
  /\ last.op = "ensureTab" =>
       \A c \in {ensureTab(Ctx(sheet), last.dealerId, last.rowNum)} : ReadsOnly(c)
  /\ last.op = "ensureAdminSheet" =>
       \A c \in {ensureAdminSheet(Ctx(sheet))} : ReadsOnly(c)
  /\ last.op = "ensureSettingsSheet" =>
       \A c \in {ensureSettingsSheet(Ctx(sheet))} : ReadsOnly(c)
  /\ last.op = "ensureDealerTabLayout" =>
       \A c \in {ensureDealerTabLayout(Ctx(sheet), normalizeDealerId(last.dealerId))} :
         ReadsOnly(c)

\* ensureDealerTabLayout has added and resized a tab and written its headers
C9_Witness ==
  /\ last.op = "ensureDealerTabLayout"
  /\ last.structs >= 2
  /\ last.writes >= 2
  /\ \E c \in {ensureDealerTabLayout(Ctx(sheet), normalizeDealerId(last.dealerId))} :
       c.reads >= 3

\* C10: after ensureTab(title, minRows) the tab exists with at least minRows
\* rows; a tab that existed has no fewer rows than before and the cells it
\* had, and every other tab is as it was.
C10_EnsureTabGrowsOnly ==
  last.op = "ensureTab" =>
    /\ last.dealerId \in DOMAIN sheet
    /\ sheet[last.dealerId].rowCount >= last.rowNum
    /\ last.dealerId \in DOMAIN prev =>
         /\ sheet[last.dealerId].rowCount >= prev[last.dealerId].rowCount
         /\ sheet[last.dealerId].cells = prev[last.dealerId].cells
    /\ \A title \in DOMAIN prev :
         title # last.dealerId => title \in DOMAIN sheet /\ sheet[title] = prev[title]

\* ensureTab has grown a tab that held cells
C10_Witness ==
  /\ last.op = "ensureTab"
  /\ last.dealerId \in DOMAIN prev
  /\ prev[last.dealerId].rowCount < last.rowNum
  /\ prev[last.dealerId].cells # <<>>
  /\ sheet[last.dealerId].rowCount = last.rowNum


\* C11: the row an upsert encoder writes decodes, through the list decoder,
\* to a record whose fields equal those of the record that was encoded
\* (vehicle records and dealer records, empty status, year 0 or null,
\* price 0 and an empty images list included).
C11_RoundTrip ==
  last.op \in {"roundTripVehicle", "roundTripDealer"} =>
    \A f \in DOMAIN inp.v : last.out[1][f] = inp.v[f]

\* C12: a vehicle row of 11 cells decodes with heroVideo empty, images from
\* cell 10 and updatedAt from cell 11; a dealer row of 8 cells decodes with
\* passcode empty and whatsapp, logoUrl, createdAt, updatedAt from cells 5
\* to 8; the cells before the missing column stay where they are.
C12_LegacyRowsDecode ==
  /\ (last.op = "decodeVehicle" /\ Len(inp.row) = 11) =>
       /\ last.out[1].heroVideo = ""
       /\ last.out[1].images = safeParseJsonArray(inp.row[10])
       /\ last.out[1].updatedAt = inp.row[11]
       /\ last.out[1].heroImage = inp.row[9]
       /\ last.out[1].vehicleId = inp.row[1]
  /\ (last.op = "decodeDealer" /\ Len(inp.row) = 8) =>
       /\ last.out[1].passcode = ""
       /\ last.out[1].whatsapp = inp.row[5]
       /\ last.out[1].logoUrl = inp.row[6]
       /\ last.out[1].createdAt = inp.row[7]
       /\ last.out[1].updatedAt = inp.row[8]
       /\ last.out[1].passcodeHash = inp.row[4]

\* an 11-cell vehicle row with an image in cell 10 was decoded
C12_Witness ==
  /\ last.op = "decodeVehicle"
  /\ Len(inp.row) = 11
  /\ inp.row[9] # ""
  /\ last.out[1].images = <<"https://cdn/2.jpg">>

\* C13: filterPublicVehicles returns, in their original order, exactly the
\* vehicles of its input whose status, compared without regard to case, is
\* published, available, in_stock or instock; every other one is left out.
C13_FilterKeepsPublic ==
  last.op = "filterPublicVehicles" =>
    LET public == {s \in StatusInputs :
                     ToLowerCase(s) \in {"published", "available", "in_stock", "instock"}}
        kept == {i \in 1..Len(inp.list) : inp.list[i].status \in public}
    IN last.out = Pack([i \in kept |-> inp.list[i]])

\* a mixed-case public status was kept, a sold vehicle between two public
\* ones was left out
C13_Witness ==
  /\ last.op = "filterPublicVehicles"
  /\ Len(inp.list) = 3
  /\ inp.list[1].status = "Published"
  /\ inp.list[2].status = "SOLD"
  /\ inp.list[3].status = "instock"
  /\ last.out = <<inp.list[1], inp.list[3]>>
  /\ last.out[2].vehicleId = "VEH-3"

\* the rows of the settings tab below the header whose trimmed key is key
SettingsRowsOf(s, key) == {r \in RowsWith(s, SETTINGS_SHEET_TITLE, 1, key) : r >= 2}

\* C14: whatever the settings tab holds, the key set of the map getSettings
\* returns is exactly the allow-list: rows with another key are dropped and
\* an allow-listed key without a row maps to the empty string.
C14_SettingsKeysAreAllowList ==
  last.op \in {"getSettings", "updateSettings"} =>
    /\ DOMAIN last.out = {"storefrontLogoUrl", "storefrontHeroVideoUrl"}
    /\ \A k \in DOMAIN last.out : SettingsRowsOf(sheet, k) = {} => last.out[k] = ""

\* read from a tab with a row of an unknown key and no hero video row
C14_Witness ==
  /\ last.op = "getSettings"
  /\ SettingsRowsOf(sheet, "theme") # {}
  /\ SettingsRowsOf(sheet, "storefrontHeroVideoUrl") = {}
  /\ last.out["storefrontHeroVideoUrl"] = ""
  /\ last.out["storefrontLogoUrl"] = "https://cdn/2.jpg"

\* C15: an update whose key is outside the allow-list is not written: the
\* rows of the settings tab with that key are those of before, unchanged,
\* and every row the update created or changed has an allow-listed key.
C15_UnknownKeyNotWritten ==
  last.op = "updateSettings" =>
    /\ \A i \in DOMAIN last.arg :
         last.arg[i][1] \notin {"storefrontLogoUrl", "storefrontHeroVideoUrl"} =>
           /\ SettingsRowsOf(sheet, last.arg[i][1]) = SettingsRowsOf(prev, last.arg[i][1])
           /\ \A r \in SettingsRowsOf(prev, last.arg[i][1]) :
                CellsOf(sheet, SETTINGS_SHEET_TITLE)[r] = CellsOf(prev, SETTINGS_SHEET_TITLE)[r]
    /\ \A r \in DOMAIN CellsOf(sheet, SETTINGS_SHEET_TITLE) :
         (/\ r >= 2
          /\ r \in DOMAIN CellsOf(prev, SETTINGS_SHEET_TITLE) =>
                CellsOf(sheet, SETTINGS_SHEET_TITLE)[r] # CellsOf(prev, SETTINGS_SHEET_TITLE)[r])
           => Trim(Cell(CellsOf(sheet, SETTINGS_SHEET_TITLE)[r], 1))
                \in {"storefrontLogoUrl", "storefrontHeroVideoUrl"}

\* an update of theme and of the hero video: the video row was appended,
\* the theme row the tab held is as it was
C15_Witness ==
  /\ last.op = "updateSettings"
  /\ last.arg = <<<<"theme", "light">>, <<"storefrontHeroVideoUrl", " https://cdn/2.jpg ">>>>
  /\ SettingsRowsOf(prev, "theme") = {2}
  /\ CellsOf(sheet, SETTINGS_SHEET_TITLE)[2] = <<"theme", "dark", "T0">>
  /\ SettingsRowsOf(prev, "storefrontHeroVideoUrl") = {}
  /\ SettingsRowsOf(sheet, "storefrontHeroVideoUrl") = {6}
  /\ last.out["storefrontHeroVideoUrl"] = "https://cdn/2.jpg"

\* the rows of a tab a vehicle upsert wrote: the rows whose first cell is a
\* vehicle id (lead rows start with a timestamp, the lead header with
\* createdAt)
VehicleRowsOf(s, title) ==
  {r \in DOMAIN CellsOf(s, title) : r >= 2 /\ Trim(Cell(CellsOf(s, title)[r], 1)) \in VehicleIds}

\* C16: every record dealerListVehicles(d) returns is the decoding of a row a
\* vehicle upsert for d wrote; the lead header row and the lead rows of the
\* same tab are not among the records returned.
C16_ListReturnsOnlyVehicles ==
  last.op = "dealerListVehicles" =>
    \A i \in DOMAIN last.out :
      /\ \E r \in VehicleRowsOf(sheet, last.dealerId) :
           last.out[i] = decodeVehicle(CellsOf(sheet, last.dealerId)[r], last.dealerId)
      /\ last.out[i] # decodeVehicle(leadHeaders, last.dealerId)

\* C17: a vehicle upsert, update or append, writes a row above
\* DEALER_LEADS_START_ROW, and the rows the tab held from that row on (the
\* lead header and the lead rows) are as they were before the upsert.
C17_VehicleWritesAboveLeads ==
  (last.op = "saveVehicle" /\ last.code = 200) =>
    /\ last.rowNum < DEALER_LEADS_START_ROW
    /\ \A r \in DOMAIN CellsOf(prev, last.dealerId) :
         r >= DEALER_LEADS_START_ROW =>
           /\ r \in DOMAIN CellsOf(sheet, last.dealerId)
           /\ CellsOf(sheet, last.dealerId)[r] = CellsOf(prev, last.dealerId)[r]

\* C18: under every configuration the row count ensureDealerTabLayout asks
\* for is at least the larger of the configured minimum and the lead start
\* row plus the buffer, so the tab has at least as many rows as the index of
\* the lead header row when that row is read and written.
C18_LayoutRequestsEnoughRows ==
  last.op = "ensureDealerTabLayout" =>
    /\ last.rowNum >= (IF inp.DEALER_MIN_ROWS # "" THEN Number(inp.DEALER_MIN_ROWS)
                       ELSE DealerMinFloor)
    /\ last.rowNum >= leadsStartRow(inp) + DealerLeadBuffer
    /\ sheet[last.dealerId].rowCount >= leadsStartRow(inp)

\* C19: no list operation returns a record whose key field is empty, also
\* when blank rows lie between populated rows: adminListDealers no empty
\* dealerId, dealerListVehicles no empty vehicleId, dealerListLeads no empty
\* leadId.
C19_ListsSkipEmptyKeys ==
  /\ last.op = "adminListDealers" => \A i \in DOMAIN last.out : last.out[i].dealerId # ""
  /\ last.op = "dealerListVehicles" => \A i \in DOMAIN last.out : last.out[i].vehicleId # ""
  /\ last.op = "dealerListLeads" => \A i \in DOMAIN last.out : last.out[i].leadId # ""

\* the rows that hold the key of a call: vehicle rows of tab AB123, dealer
\* rows of the admin tab
RowsOfCall(k) ==
  IF k.kind = "vehicle" THEN {r \in RowsWith(sheet, "AB123", 1, k.key) : r >= 2}
  ELSE {r \in RowsWith(sheet, ADMIN_SHEET_TITLE, 1, k.key) : r >= 2}

\* C20: two upserts of the same key that is not yet present, both of whose
\* scans found no match, both append: once both have written, two rows
\* hold the key. (When the second scan ran after the first write it found
\* the row, and one row holds the key.)
C20_RacingUpsertsDuplicate ==
  (/\ calls # NoCalls
   /\ calls[1].kind = calls[2].kind
   /\ calls[1].key = calls[2].key
   /\ calls[1].pc = "done"
   /\ calls[2].pc = "done") =>
     /\ (calls[1].found = -1 /\ calls[2].found = -1) => Cardinality(RowsOfCall(calls[1])) = 2
     /\ (calls[1].found # -1 \/ calls[2].found # -1) => Cardinality(RowsOfCall(calls[1])) = 1

\* both calls for vehicle VEH-0A1B2C scanned before either wrote, and two
\* rows hold the vehicle
C20_Witness ==
  /\ calls # NoCalls
  /\ calls[1] = [kind |-> "vehicle", key |-> "VEH-0A1B2C", pc |-> "done", found |-> -1]
  /\ calls[2] = calls[1]
  /\ Cardinality(RowsOfCall(calls[1])) = 2

\* C21: every dealer tab of the spreadsheet belongs to a dealer recorded in
\* the admin tab; a public vehicle listing, a public lead submission or a
\* list call for an id that is not registered creates no tab.
C21_TabsBelongToDealers ==
  \A title \in DOMAIN sheet \ {ADMIN_SHEET_TITLE, SETTINGS_SHEET_TITLE} :
    Registered(sheet, title)

\* C22: adminUpsertDealer of a dealer found at row R keeps the createdAt
\* stored in row R when the record carries none, and sets updatedAt to the
\* time of the call, also when the record carries an updatedAt of its own.
C22_UpsertKeepsCreatedAt ==
  (last.op = "adminUpsertDealer" /\ last.found) =>
    /\ last.arg = "" =>
         Cell(CellsOf(sheet, ADMIN_SHEET_TITLE)[last.rowNum], 8)
           = Cell(CellsOf(prev, ADMIN_SHEET_TITLE)[last.rowNum], 8)
    /\ Cell(CellsOf(sheet, ADMIN_SHEET_TITLE)[last.rowNum], 9) = nowIso(now)

\* the tab a provisioning function works on and the header rows it may
\* write: row 1, and row DEALER_LEADS_START_ROW of a dealer tab
ProvisionedTab ==
  IF last.op = "ensureDealerTabLayout" THEN safeDealerTabName(normalizeDealerId(last.dealerId))
  ELSE last.dealerId
HeaderRowsOf(op) ==
  IF op = "ensureDealerTabLayout" THEN {1, DEALER_LEADS_START_ROW} ELSE {1}

\* C23: ensureDealerTabLayout, ensureAdminSheet and ensureSettingsSheet
\* write at most the header rows of their tab; every other row of every tab
\* is as it was, also when the stored header differed from the expected one.
C23_HeaderChecksWriteHeadersOnly ==
  last.op \in {"ensureDealerTabLayout", "ensureAdminSheet", "ensureSettingsSheet"} =>
    /\ last.writes <= Cardinality(HeaderRowsOf(last.op))
    /\ \A title \in DOMAIN sheet :
         \A r \in DOMAIN CellsOf(sheet, title) \cup DOMAIN CellsOf(prev, title) :
           \/ title = ProvisionedTab /\ r \in HeaderRowsOf(last.op)
           \/ /\ r \in DOMAIN CellsOf(sheet, title)
              /\ r \in DOMAIN CellsOf(prev, title)
              /\ CellsOf(sheet, title)[r] = CellsOf(prev, title)[r]

\* the admin tab had the header of the older layout and a dealer row: the
\* header was rewritten, the dealer row is as it was
C23_Witness ==
  /\ last.op = "ensureAdminSheet"
  /\ last.writes = 1
  /\ 2 \in DOMAIN CellsOf(prev, ADMIN_SHEET_TITLE)
  /\ Len(CellsOf(prev, ADMIN_SHEET_TITLE)[1]) = 8
  /\ CellsOf(sheet, ADMIN_SHEET_TITLE)[1] = adminHeaders
  /\ CellsOf(sheet, ADMIN_SHEET_TITLE)[2] = CellsOf(prev, ADMIN_SHEET_TITLE)[2]

\* the leads dealerListLeads returns for dealer d on spreadsheet s whose
\* leadId is one dealerAppendLead generated
StoredLeads(s, d) ==
  {l \in {dealerListLeads(Ctx(s), d).v[i] : i \in DOMAIN dealerListLeads(Ctx(s), d).v} :
     l.leadId \in LeadIds}

\* C24: a lead dealerAppendLead has stored is returned by dealerListLeads
\* after every later operation, with every field other than status as it
\* was: each lead listed before the last operation is listed after it.
C24_LeadsNeverDeleted ==
  \A d \in TokenDealerIds :
    \A l \in StoredLeads(prev, d) :
      \E m \in StoredLeads(sheet, d) : [m EXCEPT !.status = l.status] = l

\* C25: no two rows of the lead section of a dealer tab carry the same
\* leadId, also after appends of lead records that supply their own leadId.
C25_LeadIdsUnique ==
  \A d \in TokenDealerIds :
    \A r1, r2 \in {r \in DOMAIN CellsOf(sheet, d) : r > DEALER_LEADS_START_ROW} :
      (/\ Cell(CellsOf(sheet, d)[r1], 2) \in LeadIds
       /\ Cell(CellsOf(sheet, d)[r1], 2) = Cell(CellsOf(sheet, d)[r2], 2)) => r1 = r2
\* the rows below the lead header of a tab
LeadRowsOf(s, title) ==
  [r \in {q \in DOMAIN CellsOf(s, title) : q > DEALER_LEADS_START_ROW} |-> CellsOf(s, title)[r]]

\* C26: a lead status update for a leadId that no lead of the dealer carries
\* answers 404 (the null of dealerUpdateLeadStatus) and leaves every lead row
\* of every tab as it was
C26_UnknownLeadIs404 ==
  (/\ last.op = "leadStatus"
   /\ isValidDealerId(Trim(last.dealerId))
   /\ last.arg # ""
   /\ \A l \in StoredLeads(prev, normalizeDealerId(Trim(last.dealerId))) : l.leadId # last.key)
  => /\ last.code = 404
     /\ \A title \in DOMAIN sheet : LeadRowsOf(sheet, title) = LeadRowsOf(prev, title)

C26_Witness ==
  /\ last.op = "leadStatus"
  /\ last.code = 404
  /\ last.key \in LeadIds
  /\ StoredLeads(prev, normalizeDealerId(Trim(last.dealerId))) # {}
  /\ \A l \in StoredLeads(prev, normalizeDealerId(Trim(last.dealerId))) : l.leadId # last.key

C28_InvalidInputNoStoreCall ==
  (\/ /\ last.op \in {"createDealerChecked", "submitLeadChecked"}
      /\ last.dealerId \in InvalidDealerIds
   \/ /\ last.op \in {"submitLeadChecked", "saveVehicleChecked"}
      /\ (Trim(last.arg) = "" \/ Trim(last.arg2) = ""))
  => /\ last.code = 400
     /\ last.reads = 0 /\ last.structs = 0 /\ last.writes = 0
     /\ sheet = prev

C28_Witness ==
  /\ last.op = "submitLeadChecked"
  /\ last.dealerId = "AB123"
  /\ last.arg = "Jane"
  /\ last.arg2 = ""
  /\ last.code = 400
  /\ last.reads = 0 /\ last.structs = 0 /\ last.writes = 0
  /\ "AB123" \in DOMAIN sheet

\* C29: when create-dealer or reset-passcode finds the dealer through
\* adminGetDealer, the adminUpsertDealer that follows overwrites a row and
\* appends none: the admin tab keeps its populated rows
C29_LookupAndUpsertAgree ==
  (/\ last.op \in {"createDealer", "resetPasscode"}
   /\ last.code = 200
   /\ ADMIN_SHEET_TITLE \in DOMAIN prev
   /\ adminGetDealer(Ctx(prev), normalizeDealerId(last.dealerId)).v # <<>>)
  => DOMAIN CellsOf(sheet, ADMIN_SHEET_TITLE) = DOMAIN CellsOf(prev, ADMIN_SHEET_TITLE)

====
